---- MODULE Spec2Model ----
(***************************************************************************)
(* Verification model of hdc-digest: URL identity normalisation, the       *)
(* dedup filter, the seen-item store (SQLite tables items and              *)
(* dropped_items) and the digest workflow of run.py.                       *)
(*                                                                         *)
(* A Python str is a sequence of one-character strings.                    *)
(***************************************************************************)
EXTENDS Integers, Sequences, FiniteSets, TLC

\* ------------------------------------------------------------------------
\* Bounds
\* ------------------------------------------------------------------------

\* longest URL string fed to normalize_url in UrlSpec
MaxLen == 3

\* runs of the workflow (calls of save_items) in one behaviour
MaxRuns == 2

\* items (kept and dropped together, over all sections) in one DigestResult
MaxBatch == 2

\* sections of a DigestResult (run_digest issues three queries; filter_new
\* and save_items loop over whatever list they are given)
NumSections == 2

\* run dates: date_utc is one of the days 1..MaxDate
MaxDate == 2

\* longest free text fed to _extract_json in JsonSpec
MaxText == 3

\* longest prose before and after a fenced block, and longest trailing text
MaxProse == 2

\* deepest nesting of the objects embedded in a text
MaxDepth == 2

\* most items in the response of a quality gate
MaxGate == 2

\* last day of the calendar of TrendSpec
MaxDay == 37

\* most rows in the history of TrendSpec
MaxItems == 3

\* characters of the URL strings of UrlSpec: a letter, the slash, the query
\* and fragment markers, and a whitespace character
Chars == {"a", "/", "?", "#", " "}

RECURSIVE StringsUpTo(_)
StringsUpTo(n) ==
    IF n = 0 THEN {<<>>}
    ELSE LET S == StringsUpTo(n - 1)
         IN  S \cup {Append(s, c) : s \in {t \in S : Len(t) = n - 1}, c \in Chars}

\* ------------------------------------------------------------------------
\* str helpers (Python built-ins used by store.py)
\* ------------------------------------------------------------------------

\* str.isspace() of one character
IsSpace(c) == c = " "

\* c in s
Has(s, c) == \E i \in 1..Len(s) : s[i] = c

\* s.lstrip()
RECURSIVE lstrip(_)
lstrip(s) ==
    IF s # <<>> /\ IsSpace(Head(s)) THEN lstrip(Tail(s)) ELSE s

\* s.rstrip()
RECURSIVE rstrip(_)
rstrip(s) ==
    IF s # <<>> /\ IsSpace(s[Len(s)]) THEN rstrip(SubSeq(s, 1, Len(s) - 1)) ELSE s

\* s.strip()
strip(s) == rstrip(lstrip(s))

\* s.rstrip("/"): removes every trailing slash
RECURSIVE rstrip_slash(_)
rstrip_slash(s) ==
    IF s # <<>> /\ s[Len(s)] = "/" THEN rstrip_slash(SubSeq(s, 1, Len(s) - 1)) ELSE s

\* a variant that removes one trailing slash only
rstrip_one_slash(s) ==
    IF s # <<>> /\ s[Len(s)] = "/" THEN SubSeq(s, 1, Len(s) - 1) ELSE s

\* index of the first occurrence of c in s (c occurs in s)
FirstIndex(s, c) == CHOOSE i \in 1..Len(s) : s[i] = c /\ \A j \in 1..(i - 1) : s[j] # c

\* s.split("?", 1) when "?" is in s: <<base, qs>>
split_query(s) ==
    LET i == FirstIndex(s, "?")
    IN  <<SubSeq(s, 1, i - 1), SubSeq(s, i + 1, Len(s))>>

\* ------------------------------------------------------------------------
\* normalize_url (store.py)
\* ------------------------------------------------------------------------

\* normalize_url with rstrip("/") replaced by the removal of one slash
normalize_url_one_slash(url) ==
    IF url = <<>> THEN <<>>
    ELSE LET u == strip(url) IN
         IF u = <<>> THEN u
         ELSE IF Len(u) > 1 /\ u[Len(u)] = "/" /\ ~Has(u, "?") /\ ~Has(u, "#")
              THEN rstrip_one_slash(u)
         ELSE IF Has(u, "?")
              THEN LET base == split_query(u)[1]
                       qs   == split_query(u)[2]
                   IN  IF Len(base) > 1 /\ base[Len(base)] = "/"
                       THEN rstrip_one_slash(base) \o <<"?">> \o qs
                       ELSE u
         ELSE u

normalize_url(url) ==
    IF url = <<>> THEN <<>>
    ELSE LET u == strip(url) IN
         IF u = <<>> THEN u
         ELSE IF Len(u) > 1 /\ u[Len(u)] = "/" /\ ~Has(u, "?") /\ ~Has(u, "#")
              THEN rstrip_slash(u)
         ELSE IF Has(u, "?")
              THEN LET base == split_query(u)[1]
                       qs   == split_query(u)[2]
                   IN  IF Len(base) > 1 /\ base[Len(base)] = "/"
                       THEN rstrip_slash(base) \o <<"?">> \o qs
                       ELSE u
         ELSE u

\* ------------------------------------------------------------------------
\* json.loads and JSONDecoder.raw_decode (Python json, as digest.py uses them)
\*
\* A decoded value is carried as its compact text (no whitespace between
\* tokens; a repeated key of an object keeps its first position and its last
\* value, as a Python dict does), so two decoded values are equal exactly
\* when their compact texts are.
\* ------------------------------------------------------------------------

Digits == {"0", "1", "2", "3", "4", "5", "6", "7", "8", "9"}

\* characters that may follow a backslash inside a JSON string (\uXXXX is
\* not modelled)
EscapeChars == {"\"", "\\", "/", "b", "f", "n", "r", "t"}

\* the literals the scanner accepts
JsonLiterals ==
    {<<"n", "u", "l", "l">>, <<"t", "r", "u", "e">>, <<"f", "a", "l", "s", "e">>,
     <<"N", "a", "N">>, <<"I", "n", "f", "i", "n", "i", "t", "y">>,
     <<"-", "I", "n", "f", "i", "n", "i", "t", "y">>}

NoValue == [ok |-> FALSE, val |-> <<>>, end |-> 0]

Value(v, e) == [ok |-> TRUE, val |-> v, end |-> e]

\* s[i:].startswith(lit), i counted from 1
StartsWith(s, i, lit) ==
    /\ i + Len(lit) - 1 <= Len(s)
    /\ \A k \in 1..Len(lit) : s[i + k - 1] = lit[k]

\* the first position from i on that holds no whitespace (WHITESPACE.match)
RECURSIVE SkipWs(_, _)
SkipWs(s, i) ==
    IF i <= Len(s) /\ IsSpace(s[i]) THEN SkipWs(s, i + 1) ELSE i

\* the first position from i on that holds no digit
RECURSIVE DigitsEnd(_, _)
DigitsEnd(s, i) ==
    IF i <= Len(s) /\ s[i] \in Digits THEN DigitsEnd(s, i + 1) ELSE i

\* NUMBER_RE.match(s, i): the position after the number, 0 when none starts
\* at i
NumberEnd(s, i) ==
    LET a == IF i <= Len(s) /\ s[i] = "-" THEN i + 1 ELSE i
    IN  IF a > Len(s) \/ s[a] \notin Digits THEN 0
        ELSE LET b == IF s[a] = "0" THEN a + 1 ELSE DigitsEnd(s, a)
                 c == IF b <= Len(s) /\ s[b] = "." /\ DigitsEnd(s, b + 1) > b + 1
                      THEN DigitsEnd(s, b + 1) ELSE b
                 x == IF c + 1 <= Len(s) /\ s[c + 1] \in {"+", "-"} THEN c + 2 ELSE c + 1
                 d == IF c <= Len(s) /\ s[c] \in {"e", "E"} /\ DigitsEnd(s, x) > x
                      THEN DigitsEnd(s, x) ELSE c
             IN  d

\* py_scanstring from the character after the opening quote; the value keeps
\* the text between the quotes
RECURSIVE ScanString(_, _, _)
ScanString(s, j, acc) ==
    IF j > Len(s) THEN NoValue
    ELSE IF s[j] = "\"" THEN Value(<<"\"">> \o acc \o <<"\"">>, j + 1)
    ELSE IF s[j] = "\\"
         THEN IF j + 1 <= Len(s) /\ s[j + 1] \in EscapeChars
              THEN ScanString(s, j + 2, acc \o <<s[j], s[j + 1]>>)
              ELSE NoValue
    ELSE ScanString(s, j + 1, Append(acc, s[j]))

\* the texts of a list joined by commas
RECURSIVE JoinComma(_)
JoinComma(list) ==
    IF list = <<>> THEN <<>>
    ELSE IF Len(list) = 1 THEN list[1]
    ELSE list[1] \o <<",">> \o JoinComma(Tail(list))

\* dict[key] = val on a list of <<key, val>> pairs
PutMember(members, key, val) ==
    IF \E k \in 1..Len(members) : members[k][1] = key
    THEN [k \in 1..Len(members) |->
             IF members[k][1] = key THEN <<key, val>> ELSE members[k]]
    ELSE Append(members, <<key, val>>)

ObjectText(members) ==
    <<"{">> \o JoinComma([k \in 1..Len(members) |->
                             members[k][1] \o <<":">> \o members[k][2]]) \o <<"}">>

ArrayText(elems) == <<"[">> \o JoinComma(elems) \o <<"]">>

RECURSIVE ScanOnce(_, _)
RECURSIVE ArrayItems(_, _, _)
RECURSIVE ObjectMembers(_, _, _)

\* JSONArray after the first value position j
ArrayItems(s, j, acc) ==
    LET v == ScanOnce(s, j)
        k == SkipWs(s, v.end)
    IN  IF ~v.ok \/ k > Len(s) THEN NoValue
        ELSE IF s[k] = "]" THEN Value(ArrayText(Append(acc, v.val)), k + 1)
        ELSE IF s[k] = "," THEN ArrayItems(s, SkipWs(s, k + 1), Append(acc, v.val))
        ELSE NoValue

\* JSONObject from the opening quote of a key at position j
ObjectMembers(s, j, acc) ==
    IF j > Len(s) \/ s[j] # "\"" THEN NoValue
    ELSE LET key == ScanString(s, j + 1, <<>>)
             c   == SkipWs(s, key.end)
         IN  IF ~key.ok \/ c > Len(s) \/ s[c] # ":" THEN NoValue
             ELSE LET v == ScanOnce(s, SkipWs(s, c + 1))
                      k == SkipWs(s, v.end)
                      m == PutMember(acc, key.val, v.val)
                  IN  IF ~v.ok \/ k > Len(s) THEN NoValue
                      ELSE IF s[k] = "}" THEN Value(ObjectText(m), k + 1)
                      ELSE IF s[k] = "," THEN ObjectMembers(s, SkipWs(s, k + 1), m)
                      ELSE NoValue

\* scan_once(s, i): the value that starts at position i
ScanOnce(s, i) ==
    IF i > Len(s) THEN NoValue
    ELSE IF s[i] = "\"" THEN ScanString(s, i + 1, <<>>)
    ELSE IF s[i] = "{"
         THEN LET j == SkipWs(s, i + 1)
              IN  IF j <= Len(s) /\ s[j] = "}" THEN Value(<<"{", "}">>, j + 1)
                  ELSE ObjectMembers(s, j, <<>>)
    ELSE IF s[i] = "["
         THEN LET j == SkipWs(s, i + 1)
              IN  IF j <= Len(s) /\ s[j] = "]" THEN Value(<<"[", "]">>, j + 1)
                  ELSE ArrayItems(s, j, <<>>)
    ELSE IF NumberEnd(s, i) > 0 THEN Value(SubSeq(s, i, NumberEnd(s, i) - 1), NumberEnd(s, i))
    ELSE IF \E lit \in JsonLiterals : StartsWith(s, i, lit)
         THEN LET lit == CHOOSE l \in JsonLiterals : StartsWith(s, i, l)
              IN  Value(lit, i + Len(lit))
    ELSE NoValue

\* outcome of a parse: the value, or JSONDecodeError
Parsed(v) == [ok |-> TRUE, val |-> v]

DecodeError == [ok |-> FALSE, val |-> <<>>]

\* json.loads(s): one value between optional whitespace, nothing after it
json_loads(s) ==
    LET v == ScanOnce(s, SkipWs(s, 1))
    IN  IF v.ok /\ SkipWs(s, v.end) = Len(s) + 1 THEN Parsed(v.val) ELSE DecodeError

\* JSONDecoder().raw_decode(s): the value that starts at the first character,
\* whatever follows it
raw_decode(s) ==
    LET v == ScanOnce(s, 1)
    IN  IF v.ok THEN Parsed(v.val) ELSE DecodeError

\* ------------------------------------------------------------------------
\* _extract_json (digest.py): the salvage strategies, in the order tried
\* ------------------------------------------------------------------------

\* the window of the progressive trimming (range(1, min(50, len(json_str))))
TrimWindow == 50

\* the backtick character is written "~" here (a TLA+ string cannot hold it)
Backtick == "~"

\* the fence of a markdown code block
Backticks == <<Backtick, Backtick, Backtick>>

JsonTag == <<"j", "s", "o", "n">>

ItemsKey == <<"\"", "i", "t", "e", "m", "s", "\"", ":">>

Min(a, b) == IF a <= b THEN a ELSE b

\* s.find(sub, from): the first position >= from where sub starts, 0 if none
RECURSIVE FindFrom(_, _, _)
FindFrom(s, sub, from) ==
    IF from + Len(sub) - 1 > Len(s) THEN 0
    ELSE IF StartsWith(s, from, sub) THEN from
    ELSE FindFrom(s, sub, from + 1)

\* s.rfind(c): the last position of c, 0 if none
RECURSIVE LastIndex(_, _, _)
LastIndex(s, c, i) ==
    IF i = 0 THEN 0 ELSE IF s[i] = c THEN i ELSE LastIndex(s, c, i - 1)

\* the brace-counting loops: the position where the count opened at the
\* brace before i returns to zero, 0 if it never does
RECURSIVE MatchBrace(_, _, _)
MatchBrace(s, i, brace_count) ==
    IF i > Len(s) THEN 0
    ELSE IF s[i] = "{" THEN MatchBrace(s, i + 1, brace_count + 1)
    ELSE IF s[i] = "}"
         THEN IF brace_count - 1 = 0 THEN i ELSE MatchBrace(s, i + 1, brace_count - 1)
    ELSE MatchBrace(s, i + 1, brace_count)

\* the fence-opening pattern (fence, optional json tag, whitespace, brace)
\* matched at position p: the position of its brace, 0
\* when it does not match there
FenceOpenAt(s, p) ==
    IF ~StartsWith(s, p, Backticks) THEN 0
    ELSE LET a == IF StartsWith(s, p + 3, JsonTag) THEN p + 3 + Len(JsonTag) ELSE p + 3
             b == SkipWs(s, a)
         IN  IF b <= Len(s) /\ s[b] = "{" THEN b ELSE 0

\* re.findall(json_pattern, text, re.DOTALL) is not empty: somewhere a fence
\* opening is followed by a closing brace, whitespace and a fence
FenceBlockExists(s) ==
    \E p \in 1..Len(s) :
        /\ FenceOpenAt(s, p) > 0
        /\ \E q \in (FenceOpenAt(s, p) + 1)..Len(s) :
               s[q] = "}" /\ StartsWith(s, SkipWs(s, q + 1), Backticks)

\* the loop over re.finditer of the fence-opening pattern from position p on:
\* each opening is brace-matched and parsed, the first success is returned
RECURSIVE FenceScan(_, _)
FenceScan(s, p) ==
    IF p > Len(s) THEN DecodeError
    ELSE LET b == FenceOpenAt(s, p)
         IN  IF b = 0 THEN FenceScan(s, p + 1)
             ELSE LET e == MatchBrace(s, b, 0)
                      r == IF e > 0 THEN json_loads(SubSeq(s, b, e)) ELSE DecodeError
                  IN  IF r.ok THEN r ELSE FenceScan(s, b + 1)

\* the quote repair: a quote inside a string that is not followed (after
\* whitespace) by one of , : } ] is escaped
RECURSIVE FixQuotes(_, _, _, _, _)
FixQuotes(s, i, in_string, escape_next, fixed) ==
    IF i > Len(s) THEN fixed
    ELSE LET char == s[i]
             peek == SkipWs(s, i + 1)
         IN  IF escape_next
             THEN FixQuotes(s, i + 1, in_string, FALSE, Append(fixed, char))
             ELSE IF char = "\\" /\ in_string
             THEN FixQuotes(s, i + 1, in_string, TRUE, Append(fixed, char))
             ELSE IF char = "\""
             THEN IF in_string
                  THEN IF peek <= Len(s) /\ s[peek] \in {",", ":", "}", "]"}
                       THEN FixQuotes(s, i + 1, FALSE, FALSE, Append(fixed, char))
                       ELSE FixQuotes(s, i + 1, TRUE, FALSE, fixed \o <<"\\", "\"">>)
                  ELSE FixQuotes(s, i + 1, TRUE, FALSE, Append(fixed, char))
             ELSE FixQuotes(s, i + 1, in_string, FALSE, Append(fixed, char))

\* the progressive trimming from end_offset on
RECURSIVE TrimScan(_, _)
TrimScan(s, end_offset) ==
    IF end_offset >= Min(TrimWindow, Len(s)) THEN DecodeError
    ELSE LET shorter == rstrip(SubSeq(s, 1, Len(s) - end_offset))
             r == IF shorter # <<>> /\ shorter[Len(shorter)] = "}"
                  THEN json_loads(shorter) ELSE DecodeError
         IN  IF r.ok THEN r ELSE TrimScan(s, end_offset + 1)

\* the bracket-counting loop of the "items" truncation: the position after
\* the bracket that closes the array, 0 if it is never closed
RECURSIVE CloseBracket(_, _, _)
CloseBracket(s, i, depth) ==
    IF depth = 0 THEN i
    ELSE IF i > Len(s) THEN 0
    ELSE IF s[i] = "[" THEN CloseBracket(s, i + 1, depth + 1)
    ELSE IF s[i] = "]" THEN CloseBracket(s, i + 1, depth - 1)
    ELSE CloseBracket(s, i + 1, depth)

\* truncation after the "items" array, the object closed again
ItemsTruncation(s) ==
    LET items_start  == FindFrom(s, ItemsKey, 1)
        bracket_open == IF items_start > 0 THEN FindFrom(s, <<"[">>, items_start) ELSE 0
        i            == IF bracket_open > 0 THEN CloseBracket(s, bracket_open + 1, 1) ELSE 0
    IN  IF i > 0 THEN json_loads(SubSeq(s, 1, i - 1) \o <<"}">>) ELSE DecodeError

\* the first success of a list of attempts, DecodeError if there is none
RECURSIVE FirstOk(_)
FirstOk(attempts) ==
    IF attempts = <<>> THEN DecodeError
    ELSE IF Head(attempts).ok THEN Head(attempts)
    ELSE FirstOk(Tail(attempts))

\* global brace matching: the span from the first brace to its match, then
\* raw_decode, loads, quote repair, trimming, items truncation
BraceStrategy(s) ==
    LET start_idx == FindFrom(s, <<"{">>, 1)
        e         == IF start_idx > 0 THEN MatchBrace(s, start_idx, 0) ELSE 0
    IN  IF e = 0 THEN DecodeError
        ELSE LET json_str == strip(SubSeq(s, start_idx, e))
             IN  FirstOk(<<raw_decode(json_str),
                           json_loads(json_str),
                           json_loads(FixQuotes(json_str, 1, FALSE, FALSE, <<>>)),
                           TrimScan(json_str, 1),
                           ItemsTruncation(json_str)>>)

\* json_obj_pattern (a brace pair with at most one level of brace pairs
\* inside) matched at the brace before i: the
\* position of its closing brace, 0 when it does not match
RECURSIVE FlatObjectEnd(_, _, _)
FlatObjectEnd(s, i, inner) ==
    IF i > Len(s) THEN 0
    ELSE IF s[i] = "{" THEN IF inner THEN 0 ELSE FlatObjectEnd(s, i + 1, TRUE)
    ELSE IF s[i] = "}" THEN IF inner THEN FlatObjectEnd(s, i + 1, FALSE) ELSE i
    ELSE FlatObjectEnd(s, i + 1, inner)

\* the loop over re.findall(json_obj_pattern, text) from position p on
RECURSIVE RegexScan(_, _)
RegexScan(s, p) ==
    IF p > Len(s) THEN DecodeError
    ELSE LET e == IF s[p] = "{" THEN FlatObjectEnd(s, p + 1, FALSE) ELSE 0
         IN  IF e = 0 THEN RegexScan(s, p + 1)
             ELSE IF json_loads(SubSeq(s, p, e)).ok THEN json_loads(SubSeq(s, p, e))
             ELSE RegexScan(s, e + 1)

\* text[:last_brace + 1] parsed, DecodeError when there is no closing brace
TruncateToLastBrace(s) ==
    LET last_brace == LastIndex(s, "}", Len(s))
    IN  IF last_brace > 0 THEN json_loads(SubSeq(s, 1, last_brace)) ELSE DecodeError

\* _extract_json with the raw_decode attempt on the whole text left out
extract_json_no_raw_decode(original_text) ==
    LET text == strip(original_text)
    IN  FirstOk(<<json_loads(text),
                  TruncateToLastBrace(text),
                  IF FenceBlockExists(text) THEN FenceScan(text, 1) ELSE DecodeError,
                  BraceStrategy(text),
                  RegexScan(text, 1)>>)

\* _extract_json(text): the parsed value, or ok = FALSE for the ValueError
extract_json(original_text) ==
    LET text == strip(original_text)
    IN  FirstOk(<<json_loads(text),
                  raw_decode(text),
                  TruncateToLastBrace(text),
                  IF FenceBlockExists(text) THEN FenceScan(text, 1) ELSE DecodeError,
                  BraceStrategy(text),
                  RegexScan(text, 1)>>)

\* ------------------------------------------------------------------------
\* State
\* ------------------------------------------------------------------------

VARIABLES
    upc,                \* UrlSpec: "start", "once" (normalized), "twice" (renormalized)
    url,                \* UrlSpec: the argument of normalize_url
    once,               \* UrlSpec: normalize_url(url)
    twice,              \* UrlSpec: normalize_url(normalize_url(url))
    items,              \* committed rows of table items (kept)
    dropped_items,      \* committed rows of table dropped_items
    conn,               \* rows as seen inside the open transaction of save_items
    pc,                 \* position of main / save_items
    digest,             \* the DigestResult in hand
    seen_urls,          \* result of load_seen_urls()
    seen_dropped_urls,  \* result of load_seen_dropped_urls()
    pos,                \* next upsert of the save_items loops
    runs,               \* runs started so far
    retrieved,          \* history: the DigestResult as run_digest returned it
    before,             \* history: the committed rows when save_items was called
    error,              \* the exception that ended the run of main, "none" if none
    responses,          \* history: the agent responses run_digest read in this run
    atstart,            \* history: the committed rows when the run of main started
    jpc,                \* JsonSpec: "start", "done" (_extract_json returned or raised)
    jkind,              \* JsonSpec: how the text was built: "free", "fenced", "trailing"
    jobj,               \* JsonSpec: the object embedded in a built text
    jtext,              \* JsonSpec: the argument of _extract_json
    jres,               \* JsonSpec: what _extract_json gave
    npc,                \* NormSpec: "start", "done" (_normalize_item returned)
    nitem,              \* NormSpec: the raw record
    nres,               \* NormSpec: _normalize_item(nitem)
    gpc,                \* GateSpec: "start", "gated", "raised", "built"
    gated,              \* GateSpec: the items of the gate agent's response
    gkept,              \* GateSpec: gated["items"] after the gate
    gdropped,           \* GateSpec: gated["dropped_items"] after the gate
    gsection,           \* GateSpec: the DigestSection run_digest builds
    tpc,                \* TrendSpec: "start", "done" (analyze_trends returned)
    thistory,           \* TrendSpec: the rows of table items
    tseries,            \* TrendSpec: the time series of the topic
    ttopics,            \* TrendSpec: top_topics of the TrendAnalysis
    bpc,                \* BlankSpec: "start", "saved", "filtered"
    bbatch,             \* BlankSpec: the kept items of the batch save_items is given
    btable,             \* BlankSpec: the rows of table items after save_items
    blater,             \* BlankSpec: the kept items of a later digest
    bnew,               \* BlankSpec: what filter_new leaves of the later items
    kpc,                \* TopicSpec: "start", "extracted", "done"
    kperiod_items,      \* TopicSpec: period_items, the items of each period, oldest period first
    kuse_agent,         \* TopicSpec: use_agent of analyze_trends
    ktop_n,             \* TopicSpec: top_n of analyze_trends
    kagent,             \* TopicSpec: outcome of the agent call: "none", "raised", "unparsable", "list"
    kerror,             \* TopicSpec: the exception analyze_trends raised, "none" if none
    ktopics,            \* TopicSpec: topics, as the extraction step returned them
    kseries,            \* TopicSpec: time_series of _build_time_series
    ktop,               \* TopicSpec: top_topics of the TrendAnalysis
    kfiltered,          \* TopicSpec: time_series of the TrendAnalysis
    dpc,                \* DigestSpec: "running", "done", "failed"
    dcall,              \* DigestSpec: the agent call run_digest is at, counted from 1
    dflight,            \* DigestSpec: agent calls started and not yet returned
    draw,               \* DigestSpec: raw, the sections the searches returned
    dgated              \* DigestSpec: gated, the sections the quality gates returned

urlvars == <<upc, url, once, twice>>

runvars == <<error, responses, atstart>>

storevars == <<items, dropped_items, conn, pc, digest, seen_urls, seen_dropped_urls,
               pos, runs, retrieved, before, runvars>>

jsonvars == <<jpc, jkind, jobj, jtext, jres>>

\* the variables of the specifications of pure functions other than UrlSpec
normvars == <<npc, nitem, nres>>

gatevars == <<gpc, gated, gkept, gdropped, gsection>>

trendvars == <<tpc, thistory, tseries, ttopics>>

blankvars == <<bpc, bbatch, btable, blater, bnew>>

topicvars == <<kpc, kperiod_items, kuse_agent, ktop_n, kagent, kerror, ktopics, kseries, ktop, kfiltered>>

digestvars == <<dpc, dcall, dflight, draw, dgated>>

purevars == <<jsonvars, normvars, gatevars, trendvars, blankvars, topicvars, digestvars>>

vars == <<upc, url, once, twice, items, dropped_items, conn, pc, digest, seen_urls,
          seen_dropped_urls, pos, runs, retrieved, before, runvars, purevars>>

\* ------------------------------------------------------------------------
\* Inputs of the workflow: what the agent can make run_digest return
\* ------------------------------------------------------------------------

\* urls of retrieved items: one with a trailing slash, and the same with a
\* space before the trailing slash
UrlPool == {<<"a", "/">>, <<"a", " ", "/">>}

\* DigestItem values the agent returns: the url and, of the descriptive
\* fields, the title (summary, source_type and the quality fields are written
\* by the same statements of save_items)
DigestItems ==
    {[url |-> <<"a", "/">>, title |-> "t1"],
     [url |-> <<"a", "/">>, title |-> "t2"],
     [url |-> <<"a", " ", "/">>, title |-> "t1"]}

Dates == 1..MaxDate

\* DigestSection.name by position (digest.py queries)
SectionName(i) == <<"Papers", "News", "Blogs">>[i]

\* DigestSection.query by position
SectionQuery(i) == <<"paper OR arxiv", "news", "blog">>[i]

RECURSIVE SeqsUpTo(_, _)
SeqsUpTo(S, n) ==
    IF n = 0 THEN {<<>>}
    ELSE LET P == SeqsUpTo(S, n - 1)
         IN  P \cup {Append(q, x) : q \in {t \in P : Len(t) = n - 1}, x \in S}

RECURSIVE SectionLists(_, _)
\* all lists of the sections i..NumSections that hold at most n items together
SectionLists(i, n) ==
    IF i > NumSections THEN {<<>>}
    ELSE UNION {
           UNION {
             {<<[name |-> SectionName(i), query |-> SectionQuery(i), items |-> k,
                dropped_items |-> d]>> \o rest :
                  rest \in SectionLists(i + 1, n - Len(k) - Len(d))} :
             d \in SeqsUpTo(DigestItems, n - Len(k))} :
           k \in SeqsUpTo(DigestItems, n)}

\* DigestResult values run_digest can return (digest.py 589-594): the date is
\* the agent's date_utc, the items are whatever the agent found and gated
DigestResults ==
    {[date_utc |-> d, sections |-> ss] : d \in Dates, ss \in SectionLists(1, MaxBatch)}

NoDigest == [date_utc |-> 0, sections |-> <<>>]

NoRows == [items |-> {}, dropped_items |-> {}]

\* the store variables while no workflow runs (an empty database)
StoreIdle ==
    /\ items = {}
    /\ dropped_items = {}
    /\ conn = NoRows
    /\ pc = "idle"
    /\ digest = NoDigest
    /\ seen_urls = {}
    /\ seen_dropped_urls = {}
    /\ pos = 0
    /\ runs = 0
    /\ retrieved = NoDigest
    /\ before = NoRows
    /\ error = "none"
    /\ responses = <<>>
    /\ atstart = NoRows

\* the variables of UrlSpec while it is not the specification in hand
UrlIdle ==
    /\ upc = "start"
    /\ url = <<>>
    /\ once = <<>>
    /\ twice = <<>>

\* the variables of JsonSpec while it is not the specification in hand
JsonIdle ==
    /\ jpc = "idle"
    /\ jkind = "free"
    /\ jobj = <<>>
    /\ jtext = <<>>
    /\ jres = DecodeError

\* JSON values of a record's fields: null, or a string
Null == [null |-> TRUE, str |-> ""]

Str(x) == [null |-> FALSE, str |-> x]

\* the record with no key
EmptyItem == [k \in {} |-> Null]

\* the variables of NormSpec while it is not the specification in hand
NormIdle ==
    /\ npc = "idle"
    /\ nitem = EmptyItem
    /\ nres = EmptyItem

NoSection == [items |-> <<>>, dropped_items |-> <<>>]

\* the variables of GateSpec while it is not the specification in hand
GateIdle ==
    /\ gpc = "idle"
    /\ gated = <<>>
    /\ gkept = <<>>
    /\ gdropped = <<>>
    /\ gsection = NoSection

\* the variables of BlankSpec while it is not the specification in hand
BlankIdle ==
    /\ bpc = "idle"
    /\ bbatch = <<>>
    /\ btable = {}
    /\ blater = <<>>
    /\ bnew = <<>>

\* the variables of TopicSpec while it is not the specification in hand
TopicIdle ==
    /\ kpc = "idle"
    /\ kperiod_items = <<>>
    /\ kuse_agent = FALSE
    /\ ktop_n = 0
    /\ kagent = "none"
    /\ kerror = "none"
    /\ ktopics = <<>>
    /\ kseries = <<>>
    /\ ktop = <<>>
    /\ kfiltered = <<>>

\* the variables of DigestSpec while it is not the specification in hand
DigestIdle ==
    /\ dpc = "idle"
    /\ dcall = 0
    /\ dflight = 0
    /\ draw = <<>>
    /\ dgated = <<>>

\* the variables of TrendSpec while it is not the specification in hand
TrendIdle ==
    /\ tpc = "idle"
    /\ thistory = {}
    /\ tseries = <<>>
    /\ ttopics = <<>>

PureIdle == JsonIdle /\ NormIdle /\ GateIdle /\ TrendIdle /\ BlankIdle /\ TopicIdle /\ DigestIdle

\* ------------------------------------------------------------------------
\* UrlSpec: normalize_url applied once and twice to every bounded string
\* ------------------------------------------------------------------------

UrlInit ==
    /\ upc = "start"
    /\ url \in StringsUpTo(MaxLen)
    /\ once = <<>>
    /\ twice = <<>>
    /\ StoreIdle
    /\ PureIdle

Normalize ==
    /\ upc = "start"
    /\ once' = normalize_url(url)
    /\ upc' = "once"
    /\ UNCHANGED <<url, twice>>
    /\ UNCHANGED <<storevars, purevars>>

Renormalize ==
    /\ upc = "once"
    /\ twice' = normalize_url(once)
    /\ upc' = "twice"
    /\ UNCHANGED <<url, once>>
    /\ UNCHANGED <<storevars, purevars>>

UrlNext == Normalize \/ Renormalize

UrlSpec == UrlInit /\ [][UrlNext]_vars

\* ------------------------------------------------------------------------
\* JsonSpec: _extract_json applied to bounded texts
\* ------------------------------------------------------------------------

\* the characters of the free texts: the JSON punctuation, a digit, a letter
\* and a blank
JsonChars == {"{", "}", "[", "]", "\"", ":", ",", "1", "k", " "}

\* the characters of the prose around a fenced block
ProseChars == {"k", "1", " "}

\* the characters that trail a leading object
TrailChars == {"k", "}", " ", "1"}

RECURSIVE TextsUpTo(_, _)
\* all texts of at most n characters of C
TextsUpTo(C, n) ==
    IF n = 0 THEN {<<>>}
    ELSE LET P == TextsUpTo(C, n - 1)
         IN  P \cup {Append(t, c) : t \in {q \in P : Len(q) = n - 1}, c \in C}

\* the text of the object {"k": v}
Member(v) == <<"{", "\"", "k", "\"", ":">> \o v \o <<"}">>

\* texts of values that are not objects: a number, strings (two of them hold
\* a brace), an array
ScalarTexts ==
    {<<"1">>,
     <<"\"", "k", "\"">>,
     <<"\"", "}", "\"">>,
     <<"\"", "{", "\"">>,
     <<"[", "1", "]">>}

RECURSIVE ObjectTexts(_)
\* the texts of JSON objects nested at most d deep, in the compact form
\* json.dumps(separators=(",", ":")) writes
ObjectTexts(d) ==
    IF d = 0 THEN {<<"{", "}">>}
    ELSE {<<"{", "}">>} \cup {Member(v) : v \in ScalarTexts \cup ObjectTexts(d - 1)}

\* the blank between a fence and the object: none or one
Gaps == {<<>>, <<" ">>}

\* prose + fence (with or without the json tag) + object + fence + prose
FencedText(lead, tag, gap, j, trail) ==
    lead \o Backticks \o tag \o gap \o j \o gap \o Backticks \o trail

JsonInit ==
    /\ StoreIdle
    /\ UrlIdle
    /\ DigestIdle
    /\ TopicIdle
    /\ BlankIdle
    /\ jpc = "start"
    /\ jres = DecodeError
    /\ \/ /\ jkind = "free"
          /\ jobj = <<>>
          /\ jtext \in TextsUpTo(JsonChars, MaxText)
       \/ /\ jkind = "fenced"
          /\ jobj \in ObjectTexts(MaxDepth)
          /\ \E lead \in TextsUpTo(ProseChars, MaxProse),
                trail \in TextsUpTo(ProseChars, MaxProse),
                tag \in {<<>>, JsonTag}, gap \in Gaps :
                 jtext = FencedText(lead, tag, gap, jobj, trail)
       \/ /\ jkind = "trailing"
          /\ jobj \in ObjectTexts(MaxDepth)
          /\ \E trail \in TextsUpTo(TrailChars, MaxProse) \ {<<>>} :
                 jtext = jobj \o trail
    /\ NormIdle
    /\ GateIdle
    /\ TrendIdle

\* result = _extract_json(text)
ExtractJson ==
    /\ jpc = "start"
    /\ jres' = extract_json(jtext)
    /\ jpc' = "done"
    /\ UNCHANGED <<jkind, jobj, jtext>>
    /\ UNCHANGED <<urlvars, storevars, normvars, gatevars, trendvars, blankvars, topicvars, digestvars>>

JsonNext == ExtractJson

JsonSpec == JsonInit /\ [][JsonNext]_vars

\* ------------------------------------------------------------------------
\* NormSpec: _normalize_item applied to raw records
\* ------------------------------------------------------------------------

allowed_fields ==
    {"title", "published_date", "url", "summary", "source_type", "publisher", "quality"}

required_fields ==
    {"title", "published_date", "url", "summary", "source_type", "publisher"}

\* the keys a raw record may have: the Item fields, the alias type and a key
\* that is neither
RawKeys == allowed_fields \cup {"type", "note"}

\* the values a key of a raw record may have
RawValues == {Null, Str("x")}

\* normalized['source_type'] = normalized.pop('type'), when there is a type
\* and no source_type
map_type(item) ==
    IF "type" \in DOMAIN item /\ "source_type" \notin DOMAIN item
    THEN [k \in (DOMAIN item \ {"type"}) \cup {"source_type"} |->
              IF k = "source_type" THEN item["type"] ELSE item[k]]
    ELSE item

\* {k: v for k, v in normalized.items() if k in allowed_fields}
keep_allowed(item) == [k \in DOMAIN item \cap allowed_fields |-> item[k]]

\* the required fields that are not keys get the default ''
fill_required(item) ==
    [k \in DOMAIN item \cup required_fields |->
         IF k \in DOMAIN item THEN item[k] ELSE Str("")]

normalize_item(item) == fill_required(keep_allowed(map_type(item)))

NormInit ==
    /\ StoreIdle
    /\ UrlIdle
    /\ DigestIdle
    /\ TopicIdle
    /\ BlankIdle
    /\ JsonIdle
    /\ GateIdle
    /\ TrendIdle
    /\ npc = "start"
    /\ nitem \in UNION {[K -> RawValues] : K \in SUBSET RawKeys}
    /\ nres = EmptyItem

\* normalized = _normalize_item(item)
NormalizeItem ==
    /\ npc = "start"
    /\ nres' = normalize_item(nitem)
    /\ npc' = "done"
    /\ UNCHANGED nitem
    /\ UNCHANGED <<urlvars, storevars, jsonvars, gatevars, trendvars, blankvars, topicvars, digestvars>>

NormNext == NormalizeItem

NormSpec == NormInit /\ [][NormNext]_vars

\* ------------------------------------------------------------------------
\* GateSpec: the partition of _quality_gate_section and the section that
\* run_digest builds from it
\* ------------------------------------------------------------------------

\* days_back of run_digest
DaysBack == 1

NoVerdict == [kind |-> "absent", text |-> <<>>]

\* the shapes of quality["verdict"]: no such key, null, a number, a string
VerdictShapes ==
    {NoVerdict,
     [kind |-> "null", text |-> <<>>],
     [kind |-> "num", text |-> <<>>]}
    \cup {[kind |-> "str", text |-> t] :
              t \in {<<"K", "E", "E", "P">>, <<"k", "e", "e", "p">>,
                     <<" ", "K", "e", "e", "p", " ">>, <<"D", "R", "O", "P">>,
                     <<"K", "E", "E", "P", "S">>, <<>>}}

\* the shapes of item["quality"]: no such key, null, a string, a number, a
\* list (each empty or not, zero or not), an empty mapping, a mapping with
\* each shape of verdict
QualityShapes ==
    {[kind |-> k, truthy |-> t, verdict |-> NoVerdict] :
         k \in {"str", "num", "list"}, t \in BOOLEAN}
    \cup {[kind |-> k, truthy |-> FALSE, verdict |-> NoVerdict] :
              k \in {"absent", "null", "map"}}
    \cup {[kind |-> "map", truthy |-> TRUE, verdict |-> v] : v \in VerdictShapes}

\* urls of gated items: two that normalize to the same url, and another
GateUrls == {<<"a">>, <<"a", "/">>, <<"b">>}

\* published_date as days before today; NoDate for a missing or unparsable one
NoDate == 0 - 1

Ages == {NoDate, 0, DaysBack, DaysBack + 1}

GateItems ==
    {[url |-> u, quality |-> q, age |-> a] :
         u \in GateUrls, q \in QualityShapes, a \in Ages}

\* str.upper() on the letters of the verdicts
upper(text) ==
    [i \in 1..Len(text) |->
        CASE text[i] = "k" -> "K"
          [] text[i] = "e" -> "E"
          [] text[i] = "p" -> "P"
          [] text[i] = "d" -> "D"
          [] text[i] = "r" -> "R"
          [] text[i] = "o" -> "O"
          [] text[i] = "s" -> "S"
          [] OTHER -> text[i]]

\* (it.get("quality") or {}).get("verdict") raises AttributeError: the left
\* side is a truthy value that is no mapping
verdict_raises(it) == it.quality.truthy /\ it.quality.kind # "map"

\* (it.get("quality") or {}).get("verdict"), when it does not raise
get_verdict(it) == IF it.quality.truthy THEN it.quality.verdict ELSE NoVerdict

\* isinstance(verdict, str) and str(verdict).strip().upper() == "KEEP"
is_keep(verdict) ==
    verdict.kind = "str" /\ upper(strip(verdict.text)) = <<"K", "E", "E", "P">>

RECURSIVE gate_loop(_, _, _)
\* the loop over gated["items"]: the lists it ends with, or raised
gate_loop(list, kept_items, dropped) ==
    IF list = <<>>
    THEN [raised |-> FALSE, items |-> kept_items, dropped_items |-> dropped]
    ELSE LET it == Head(list)
         IN  IF verdict_raises(it)
             THEN [raised |-> TRUE, items |-> <<>>, dropped_items |-> <<>>]
             ELSE IF is_keep(get_verdict(it))
                  THEN gate_loop(Tail(list), Append(kept_items, it), dropped)
                  ELSE gate_loop(Tail(list), kept_items, Append(dropped, it))

\* _is_within_days_back(published_date, days_back)
is_within_days_back(age, days_back) ==
    \/ days_back <= 0
    \/ age = NoDate
    \/ age <= days_back

RECURSIVE kept_raw(_)
\* [it for it in s.get("items", []) if _is_within_days_back(...)]
kept_raw(list) ==
    IF list = <<>> THEN <<>>
    ELSE IF is_within_days_back(Head(list).age, DaysBack)
         THEN <<Head(list)>> \o kept_raw(Tail(list))
         ELSE kept_raw(Tail(list))

GateInit ==
    /\ StoreIdle
    /\ UrlIdle
    /\ DigestIdle
    /\ TopicIdle
    /\ BlankIdle
    /\ JsonIdle
    /\ NormIdle
    /\ TrendIdle
    /\ gpc = "start"
    /\ gated \in SeqsUpTo(GateItems, MaxGate)
    /\ gkept = <<>>
    /\ gdropped = <<>>
    /\ gsection = NoSection

\* the loop of _quality_gate_section over the items of the response
QualityGate ==
    /\ gpc = "start"
    /\ LET r == gate_loop(gated, <<>>, <<>>)
       IN  /\ gkept' = r.items
           /\ gdropped' = r.dropped_items
           /\ gpc' = IF r.raised THEN "raised" ELSE "gated"
    /\ UNCHANGED <<gated, gsection>>
    /\ UNCHANGED <<urlvars, storevars, jsonvars, normvars, trendvars, blankvars, topicvars, digestvars>>

\* run_digest builds the DigestSection of a gated section
BuildSection ==
    /\ gpc = "gated"
    /\ gsection' = [items |-> kept_raw(gkept), dropped_items |-> gdropped]
    /\ gpc' = "built"
    /\ UNCHANGED <<gated, gkept, gdropped>>
    /\ UNCHANGED <<urlvars, storevars, jsonvars, normvars, trendvars, blankvars, topicvars, digestvars>>

GateNext == QualityGate \/ BuildSection

GateSpec == GateInit /\ [][GateNext]_vars

\* ------------------------------------------------------------------------
\* TrendSpec: analyze_trends over bounded histories of stored items
\* ------------------------------------------------------------------------

\* dates are day numbers; day 0 is a Monday and the analysis date is the
\* last day of the calendar
Today == MaxDay

\* weeks_back of analyze_trends
weeks_back == 52

\* min_gap_weeks of _identify_active_topics
min_gap_weeks == 4

DaysPerWeek == 7

\* end_date = None
NoEnd == 0 - 1

\* rows of table items: the date the item was first seen and whether its
\* title or summary mentions the topic
HistoryItems == {[first_seen_date |-> d, mentions |-> b] : d \in 0..MaxDay, b \in BOOLEAN}

RECURSIVE SubsetsUpTo(_, _)
\* the subsets of S of at most n elements
SubsetsUpTo(S, n) ==
    IF n = 0 THEN {{}}
    ELSE LET P == SubsetsUpTo(S, n - 1)
         IN  P \cup {q \cup {x} : q \in {t \in P : Cardinality(t) = n - 1}, x \in S}

\* SELECT * FROM items WHERE first_seen_date >= ? AND first_seen_date <= ?
select_between(rows, start_date, end_date) ==
    {row \in rows : row.first_seen_date >= start_date /\ row.first_seen_date <= end_date}

\* the ISO week of a date
period_of(date) == date \div DaysPerWeek

\* _get_items_by_time_period: the periods that hold a row
periods(rows) == {period_of(row.first_seen_date) : row \in rows}

\* the date synthesized for a period without rows: the first day of the week
period_start(period) == period * DaysPerWeek

RECURSIVE sorted(_)
\* sorted(period_items.keys())
sorted(S) ==
    IF S = {} THEN <<>>
    ELSE LET least == CHOOSE x \in S : \A y \in S : x <= y
         IN  <<least>> \o sorted(S \ {least})

\* the rows of a period, and the date of the first of them (the rows come
\* ordered by first_seen_date)
rows_of(rows, period) == {row \in rows : period_of(row.first_seen_date) = period}

first_date(rows) ==
    CHOOSE d \in {row.first_seen_date : row \in rows} :
        \A row \in rows : d <= row.first_seen_date

\* _calculate_topic_mentions
calculate_topic_mentions(rows) == Cardinality({row \in rows : row.mentions})

\* _build_time_series for the topic: a data point per period that holds rows
build_time_series(rows) ==
    LET ps == sorted(periods(rows))
    IN  [i \in 1..Len(ps) |->
            [period |-> ps[i],
             date |-> IF rows_of(rows, ps[i]) # {}
                      THEN first_date(rows_of(rows, ps[i]))
                      ELSE period_start(ps[i]),
             count |-> calculate_topic_mentions(rows_of(rows, ps[i]))]]

\* the indexes of the points with count > 0
non_zero(points) == {i \in 1..Len(points) : points[i].count > 0}

\* _identify_active_topics with the topic ended from a gap of min_gap_weeks on
identify_active_topics_ge(points) ==
    LET nz == non_zero(points)
        first == CHOOSE i \in nz : \A j \in nz : i <= j
        last == CHOOSE i \in nz : \A j \in nz : j <= i
        gap_days == points[Len(points)].date - points[last].date
    IN  [start_date |-> points[first].date,
         end_date |-> IF gap_days >= min_gap_weeks * DaysPerWeek
                      THEN points[last].date ELSE NoEnd]

\* _identify_active_topics for a topic with a nonzero point: gap_weeks is
\* days / 7, so gap_weeks > min_gap_weeks is days > 7 * min_gap_weeks
identify_active_topics(points) ==
    LET nz == non_zero(points)
        first == CHOOSE i \in nz : \A j \in nz : i <= j
        last == CHOOSE i \in nz : \A j \in nz : j <= i
        gap_days == points[Len(points)].date - points[last].date
    IN  [start_date |-> points[first].date,
         end_date |-> IF gap_days > min_gap_weeks * DaysPerWeek
                      THEN points[last].date ELSE NoEnd]

RECURSIVE total_count(_)
\* sum(p.count for p in points)
total_count(points) ==
    IF points = <<>> THEN 0 ELSE Head(points).count + total_count(Tail(points))

\* top_topics of analyze_trends: the topic is reported when it has a mention
top_topics(points) ==
    IF total_count(points) = 0 THEN <<>>
    ELSE LET p == identify_active_topics(points)
         IN  <<[start_date |-> p.start_date, end_date |-> p.end_date,
                total_mentions |-> total_count(points)]>>

TrendInit ==
    /\ StoreIdle
    /\ UrlIdle
    /\ DigestIdle
    /\ TopicIdle
    /\ BlankIdle
    /\ JsonIdle
    /\ NormIdle
    /\ GateIdle
    /\ tpc = "start"
    /\ thistory \in SubsetsUpTo(HistoryItems, MaxItems)
    /\ tseries = <<>>
    /\ ttopics = <<>>

\* analyze_trends(): the rows of the last weeks_back weeks are grouped by
\* week, counted, and the topic gets its dates
AnalyzeTrends ==
    /\ tpc = "start"
    /\ LET end_date == Today
           start_date == end_date - DaysPerWeek * weeks_back
           series == build_time_series(select_between(thistory, start_date, end_date))
       IN  /\ tseries' = series
           /\ ttopics' = top_topics(series)
    /\ tpc' = "done"
    /\ UNCHANGED thistory
    /\ UNCHANGED <<urlvars, storevars, jsonvars, normvars, gatevars, blankvars, topicvars, digestvars>>

TrendNext == AnalyzeTrends

TrendSpec == TrendInit /\ [][TrendNext]_vars

\* ------------------------------------------------------------------------
\* TopicSpec: topic extraction, the time series of every topic and the
\* ranking of analyze_trends (trends.py). The dates of the data points are
\* those of TrendSpec and are left out here.
\* ------------------------------------------------------------------------

\* most periods that hold items
MaxPeriods == 2

\* most items of a period
MaxPerPeriod == 2

\* most topics in the list the agent returns
MaxTopics == 2

\* largest top_n
MaxTopN == 2

\* the slice limit of _extract_topics_keywords
KeywordLimit == 15

\* rows of table items as analyze_trends reads them
TopicItems ==
    {[title |-> <<"x">>, summary |-> <<>>],
     [title |-> <<"X">>, summary |-> <<"y">>],
     [title |-> <<>>, summary |-> <<"y">>],
     [title |-> <<>>, summary |-> <<>>]}

\* the elements of the JSON array of the agent: labels, one with a trailing
\* blank, and the empty string
RawTopics == {<<"x">>, <<"y">>, <<"x", " ">>, <<>>}

\* the keyword table, scaled down: a topic phrase and the keys looked for
keywords ==
    <<[topic |-> <<"x", "y">>, keys |-> <<<<"X">>>>],
      [topic |-> <<"y">>, keys |-> <<<<"q">>, <<"y">>>>]>>

\* str.lower()
lower(s) == [i \in 1..Len(s) |-> IF s[i] = "X" THEN "x" ELSE s[i]]

\* sub in s
Contains(s, sub) == FindFrom(s, sub, 1) > 0

RECURSIVE count_from(_, _, _)
\* s.count(sub) for a non-empty sub, counted from position from
count_from(s, sub, from) ==
    LET i == FindFrom(s, sub, from)
    IN  IF i = 0 THEN 0 ELSE 1 + count_from(s, sub, i + Len(sub))

\* item.get("title", "") + " " + item.get("summary", "")
combined(item) == item.title \o <<" ">> \o item.summary

RECURSIVE flatten(_)
\* all_items: the items of all periods
flatten(period_items) ==
    IF period_items = <<>> THEN <<>>
    ELSE Head(period_items) \o flatten(Tail(period_items))

RECURSIVE join_blank(_)
\* " ".join(texts)
join_blank(texts) ==
    IF texts = <<>> THEN <<>>
    ELSE IF Len(texts) = 1 THEN texts[1]
    ELSE texts[1] \o <<" ">> \o join_blank(Tail(texts))

RECURSIVE insert_reverse(_, _)
\* e put behind every element whose x[1] is not smaller
insert_reverse(list, e) ==
    IF list = <<>> THEN <<e>>
    ELSE IF Head(list)[2] >= e[2] THEN <<Head(list)>> \o insert_reverse(Tail(list), e)
    ELSE <<e>> \o list

RECURSIVE sort_reverse(_)
\* list.sort(key=lambda x: x[1], reverse=True): stable
sort_reverse(list) ==
    IF list = <<>> THEN <<>>
    ELSE insert_reverse(sort_reverse(SubSeq(list, 1, Len(list) - 1)), list[Len(list)])

\* a slice that keeps the whole list
take_all(list, n) == list

\* list[:n] for n >= 0
take(list, n) == SubSeq(list, 1, Min(n, Len(list)))

RECURSIVE first_key(_, _)
\* the first key of keys that occurs in all_text, <<>> if none does
first_key(keys, all_text) ==
    IF keys = <<>> THEN <<>>
    ELSE IF Contains(all_text, lower(Head(keys))) THEN lower(Head(keys))
    ELSE first_key(Tail(keys), all_text)

RECURSIVE keyword_counts(_, _)
\* topic_counts, in the order of the table, for the topics a key was found for
keyword_counts(table, all_text) ==
    IF table = <<>> THEN <<>>
    ELSE LET key == first_key(Head(table).keys, all_text)
         IN  (IF key = <<>> THEN <<>>
              ELSE <<<<Head(table).topic, count_from(all_text, key, 1)>>>>)
             \o keyword_counts(Tail(table), all_text)

\* _extract_topics_keywords
extract_topics_keywords(rows) ==
    LET all_text == lower(join_blank([i \in 1..Len(rows) |-> combined(rows[i])]))
        sorted_topics == take(sort_reverse(keyword_counts(keywords, all_text)), KeywordLimit)
    IN  SelectSeq([i \in 1..Len(sorted_topics) |-> sorted_topics[i][1]],
                  LAMBDA t : \E i \in 1..Len(sorted_topics) :
                                 sorted_topics[i][1] = t /\ sorted_topics[i][2] > 0)

\* [str(t).strip() for t in topics if t]
clean_topics(raw) ==
    LET kept == SelectSeq(raw, LAMBDA t : t # <<>>)
    IN  [i \in 1..Len(kept) |-> strip(kept[i])]

\* _extract_topics_from_items: outcome is what Runner.run_sync and the
\* parsing of its text came to
extract_topics_from_items(rows, outcome, raw) ==
    IF rows = <<>> THEN [raised |-> FALSE, topics |-> <<>>]
    ELSE IF outcome = "list" THEN [raised |-> FALSE, topics |-> clean_topics(raw)]
    ELSE [raised |-> FALSE, topics |-> extract_topics_keywords(rows)]

\* _calculate_topic_mentions
topic_mentions(rows, topic) ==
    Cardinality({i \in 1..Len(rows) : Contains(lower(combined(rows[i])), lower(topic))})

RECURSIVE dict_keys(_, _)
\* the keys of {topic: [] for topic in topics}, in insertion order
dict_keys(topics, seen) ==
    IF topics = <<>> THEN <<>>
    ELSE IF Head(topics) \in seen THEN dict_keys(Tail(topics), seen)
    ELSE <<Head(topics)>> \o dict_keys(Tail(topics), seen \cup {Head(topics)})

RECURSIVE points_of(_, _, _, _)
\* the points appended to time_series[key] from period p on: one for each
\* position of topics that holds key
points_of(period_items, topics, key, p) ==
    IF p > Len(period_items) THEN <<>>
    ELSE LET hits == SelectSeq(topics, LAMBDA t : t = key)
         IN  [i \in 1..Len(hits) |->
                 [period |-> p, count |-> topic_mentions(period_items[p], key)]]
             \o points_of(period_items, topics, key, p + 1)

\* _build_time_series for the list of topics: the dict in key order
build_topic_series(period_items, topics) ==
    LET keys == dict_keys(topics, {})
    IN  [i \in 1..Len(keys) |->
            [topic |-> keys[i], points |-> points_of(period_items, topics, keys[i], 1)]]

RECURSIVE sum_counts(_)
\* sum(p.count for p in points)
sum_counts(points) ==
    IF points = <<>> THEN 0 ELSE Head(points).count + sum_counts(Tail(points))

\* max(points, key=lambda p: p.count): the first point of the largest count
peak_point(points) ==
    points[CHOOSE i \in 1..Len(points) :
               /\ \A j \in 1..Len(points) : points[j].count <= points[i].count
               /\ \A j \in 1..(i - 1) : points[j].count < points[i].count]

RECURSIVE topic_stats(_)
\* topic_stats: (topic, total, peak period, peak count) of the topics whose
\* total is not zero
topic_stats(series) ==
    IF series = <<>> THEN <<>>
    ELSE LET total == sum_counts(Head(series).points)
         IN  (IF total = 0 THEN <<>>
              ELSE <<<<Head(series).topic, total,
                       peak_point(Head(series).points).period,
                       peak_point(Head(series).points).count>>>>)
             \o topic_stats(Tail(series))

\* time_series[topic]
series_get(series, topic) ==
    series[CHOOSE i \in 1..Len(series) : series[i].topic = topic].points

TopicInit ==
    /\ StoreIdle
    /\ UrlIdle
    /\ DigestIdle
    /\ BlankIdle
    /\ JsonIdle
    /\ NormIdle
    /\ GateIdle
    /\ TrendIdle
    /\ kpc = "start"
    /\ kperiod_items \in SeqsUpTo(SeqsUpTo(TopicItems, MaxPerPeriod) \ {<<>>}, MaxPeriods)
    /\ kuse_agent \in BOOLEAN
    /\ ktop_n \in 0..MaxTopN
    /\ kagent = "none"
    /\ kerror = "none"
    /\ ktopics = <<>>
    /\ kseries = <<>>
    /\ ktop = <<>>
    /\ kfiltered = <<>>

\* analyze_trends up to the topics: the agent is asked (it raises, answers
\* text that holds no JSON array, or answers a list), or the keywords are used
ExtractTopics ==
    /\ kpc = "start"
    /\ LET all_items == flatten(kperiod_items)
       IN  IF kuse_agent
           THEN \E outcome \in {"raised", "unparsable", "list"} :
                \E raw \in IF outcome = "list" THEN SeqsUpTo(RawTopics, MaxTopics) ELSE {<<>>} :
                \E r \in {extract_topics_from_items(all_items, outcome, raw)} :
                    /\ kagent' = IF all_items = <<>> THEN "none" ELSE outcome
                    /\ kerror' = IF r.raised THEN "agent" ELSE "none"
                    /\ ktopics' = r.topics
                    /\ kpc' = IF r.raised THEN "failed" ELSE "extracted"
           ELSE /\ kagent' = "none"
                /\ kerror' = "none"
                /\ ktopics' = extract_topics_keywords(all_items)
                /\ kpc' = "extracted"
    /\ UNCHANGED <<kperiod_items, kuse_agent, ktop_n, kseries, ktop, kfiltered>>
    /\ UNCHANGED <<urlvars, storevars, jsonvars, normvars, gatevars, blankvars, trendvars, digestvars>>

\* analyze_trends from the time series on: the series of every topic, the
\* statistics, the ranking and the filtered series
RankTopics ==
    /\ kpc = "extracted"
    /\ \E series \in {build_topic_series(kperiod_items, ktopics)} :
       \E top_topics_data \in {take(sort_reverse(topic_stats(series)), ktop_n)} :
           /\ kseries' = series
           /\ ktop' = [i \in 1..Len(top_topics_data) |->
                          [name |-> top_topics_data[i][1],
                           total_mentions |-> top_topics_data[i][2],
                           peak_count |-> top_topics_data[i][4]]]
           /\ kfiltered' = [i \in 1..Len(top_topics_data) |->
                               [topic |-> top_topics_data[i][1],
                                points |-> series_get(series, top_topics_data[i][1])]]
    /\ kpc' = "done"
    /\ UNCHANGED <<kperiod_items, kuse_agent, ktop_n, kagent, kerror, ktopics>>
    /\ UNCHANGED <<urlvars, storevars, jsonvars, normvars, gatevars, blankvars, trendvars, digestvars>>

TopicNext == ExtractTopics \/ RankTopics

TopicSpec == TopicInit /\ [][TopicNext]_vars

\* ------------------------------------------------------------------------
\* Store operations (store.py)
\* ------------------------------------------------------------------------

\* SELECT url FROM <table>, each url normalized (load_seen_urls,
\* load_seen_dropped_urls)
load_seen(table) == {normalize_url(row.url) : row \in table}

\* the comprehension with the raw url looked up instead of the normalized one
RECURSIVE keep_unseen_raw(_, _)
keep_unseen_raw(list, seen) ==
    IF list = <<>> THEN <<>>
    ELSE IF Head(list).url \notin seen
         THEN <<Head(list)>> \o keep_unseen_raw(Tail(list), seen)
         ELSE keep_unseen_raw(Tail(list), seen)

RECURSIVE keep_unseen_reversed(_, _)
\* the survivors, last first
keep_unseen_reversed(list, seen) ==
    IF list = <<>> THEN <<>>
    ELSE IF normalize_url(Head(list).url) \notin seen
         THEN keep_unseen_reversed(Tail(list), seen) \o <<Head(list)>>
         ELSE keep_unseen_reversed(Tail(list), seen)

\* the list comprehension of filter_new: items whose normalized url is not seen
RECURSIVE keep_unseen(_, _)
keep_unseen(list, seen) ==
    IF list = <<>> THEN <<>>
    ELSE IF normalize_url(Head(list).url) \notin seen
         THEN <<Head(list)>> \o keep_unseen(Tail(list), seen)
         ELSE keep_unseen(Tail(list), seen)

filter_new(d, seen, dropped_seen) ==
    [d EXCEPT !.sections =
        [i \in 1..Len(d.sections) |->
            [d.sections[i] EXCEPT
                !.items = keep_unseen(d.sections[i].items, seen),
                !.dropped_items = keep_unseen(d.sections[i].dropped_items, dropped_seen)]]]

\* SELECT ... WHERE url = ?
select_by_url(table, stored_url) == {row \in table : row.url = stored_url}

\* an upsert whose UPDATE also rewrites first_seen_date and restarts the count
upsert_reset(table, section_name, item, date_str) ==
    LET stored_url == normalize_url(item.url)
        existing   == select_by_url(table, stored_url)
        fresh      == [url |-> stored_url, title |-> item.title,
                       section_name |-> section_name,
                       first_seen_date |-> date_str, last_seen_date |-> date_str,
                       seen_count |-> 1]
    IN  (table \ existing) \cup {fresh}

\* an upsert whose UPDATE leaves the descriptive fields as they were
upsert_stale(table, section_name, item, date_str) ==
    LET stored_url == normalize_url(item.url)
        existing   == select_by_url(table, stored_url)
    IN  IF existing # {}
        THEN {IF row.url = stored_url
              THEN [row EXCEPT !.last_seen_date = date_str,
                               !.seen_count = @ + 1]
              ELSE row : row \in table}
        ELSE table \cup {[url |-> stored_url, title |-> item.title,
                          section_name |-> section_name,
                          first_seen_date |-> date_str, last_seen_date |-> date_str,
                          seen_count |-> 1]}

\* one pass of the kept-items loop body of save_items: SELECT, then UPDATE
\* or INSERT
upsert_item(table, section_name, item, date_str) ==
    LET stored_url == normalize_url(item.url)
        existing   == select_by_url(table, stored_url)
    IN  IF existing # {}
        THEN {IF row.url = stored_url
              THEN [row EXCEPT !.title = item.title,
                               !.section_name = section_name,
                               !.last_seen_date = date_str,
                               !.seen_count = @ + 1]
              ELSE row : row \in table}
        ELSE table \cup {[url |-> stored_url, title |-> item.title,
                          section_name |-> section_name,
                          first_seen_date |-> date_str, last_seen_date |-> date_str,
                          seen_count |-> 1]}

\* one pass of the dropped-items loop body of save_items
upsert_dropped_item(table, section_name, item, date_str) ==
    LET stored_url == normalize_url(item.url)
        existing   == select_by_url(table, stored_url)
    IN  IF existing # {}
        THEN {IF row.url = stored_url
              THEN [row EXCEPT !.title = item.title,
                               !.section_name = section_name,
                               !.last_seen_date = date_str,
                               !.seen_count = @ + 1]
              ELSE row : row \in table}
        ELSE table \cup {[url |-> stored_url, title |-> item.title,
                          section_name |-> section_name,
                          first_seen_date |-> date_str, last_seen_date |-> date_str,
                          seen_count |-> 1]}

\* the upserts of one section in the order save_items issues them: the kept
\* items, then the dropped items
SectionWork(section) ==
    [i \in 1..Len(section.items) |->
        [kind |-> "kept", name |-> section.name, item |-> section.items[i]]]
    \o
    [i \in 1..Len(section.dropped_items) |->
        [kind |-> "dropped", name |-> section.name, item |-> section.dropped_items[i]]]

RECURSIVE Work(_)
\* the upserts of save_items over all sections, in order
Work(sections) ==
    IF sections = <<>> THEN <<>>
    ELSE SectionWork(Head(sections)) \o Work(Tail(sections))

\* conn.rollback() with the partial writes kept
rollback_partial(committed, open) == open

\* conn.rollback(): the tables are what was committed before the transaction
rollback(committed, open) == committed

\* ------------------------------------------------------------------------
\* Workflow of main (run.py) and the steps of save_items
\* ------------------------------------------------------------------------

\* agent responses: one that _extract_json parses, one that it gives up on
AgentTexts == {<<"{", "}">>, <<"k">>}

\* the agent calls of run_digest, in order: a search per section, a quality
\* gate per section, the theme synthesis
AgentCalls == 2 * NumSections + 1

\* _extract_json never raises
salvage_fails_never(text) == FALSE

\* _extract_json(text) raises the ValueError
salvage_fails(text) == ~extract_json(text).ok

RECURSIVE Received(_, _)
\* the responses run_digest reads, and whether the ValueError left it: the
\* calls are made in order and the first ValueError ends them
Received(texts, i) ==
    IF i > Len(texts) THEN [read |-> texts, raised |-> FALSE]
    ELSE IF salvage_fails(texts[i]) THEN [read |-> SubSeq(texts, 1, i), raised |-> TRUE]
    ELSE Received(texts, i + 1)

\* a run of main starts (its locals are fresh) and run_digest is called: it
\* returns a DigestResult, or the ValueError of _extract_json leaves it and
\* main re-raises it
RunDigest ==
    /\ pc \in {"idle", "sent", "failed"}
    /\ runs < MaxRuns
    /\ runs' = runs + 1
    /\ seen_urls' = {}
    /\ seen_dropped_urls' = {}
    /\ pos' = 0
    /\ before' = NoRows
    /\ atstart' = [items |-> items, dropped_items |-> dropped_items]
    /\ \E texts \in [1..AgentCalls -> AgentTexts] :
          \E r \in {Received(texts, 1)} :
              /\ responses' = r.read
              /\ IF r.raised
                 THEN /\ digest' = NoDigest
                      /\ retrieved' = NoDigest
                      /\ error' = "ValueError"
                      /\ pc' = "failed"
                 ELSE /\ \E d \in DigestResults :
                            /\ digest' = d
                            /\ retrieved' = d
                      /\ error' = "none"
                      /\ pc' = "digest"
    /\ UNCHANGED <<items, dropped_items, conn>>
    /\ UNCHANGED <<urlvars, purevars>>

\* load_seen_urls() and load_seen_dropped_urls()
LoadSeen ==
    /\ pc = "digest"
    /\ seen_urls' = load_seen(items)
    /\ seen_dropped_urls' = load_seen(dropped_items)
    /\ pc' = "loaded"
    /\ UNCHANGED <<items, dropped_items, conn, digest, pos, runs, retrieved, before>>
    /\ UNCHANGED runvars
    /\ UNCHANGED <<urlvars, purevars>>

\* digest = filter_new(digest, seen_urls, seen_dropped_urls)
FilterNew ==
    /\ pc = "loaded"
    /\ digest' = filter_new(digest, seen_urls, seen_dropped_urls)
    /\ pc' = "filtered"
    /\ UNCHANGED <<items, dropped_items, conn, seen_urls, seen_dropped_urls, pos, runs,
                   retrieved, before>>
    /\ UNCHANGED runvars
    /\ UNCHANGED <<urlvars, purevars>>

\* save_items(digest) is entered: the transaction opens on the committed rows
BeginSave ==
    /\ pc = "filtered"
    /\ conn' = [items |-> items, dropped_items |-> dropped_items]
    /\ before' = [items |-> items, dropped_items |-> dropped_items]
    /\ pos' = 1
    /\ pc' = "saving"
    /\ UNCHANGED <<items, dropped_items, digest, seen_urls, seen_dropped_urls, runs,
                   retrieved>>
    /\ UNCHANGED runvars
    /\ UNCHANGED <<urlvars, purevars>>

\* save_items called on a DigestResult directly, without the steps of main
DirectSave ==
    /\ pc \in {"idle", "done", "failed"}
    /\ runs < MaxRuns
    /\ \E d \in DigestResults :
          /\ digest' = d
          /\ retrieved' = d
    /\ runs' = runs + 1
    /\ conn' = [items |-> items, dropped_items |-> dropped_items]
    /\ before' = [items |-> items, dropped_items |-> dropped_items]
    /\ pos' = 1
    /\ pc' = "saving"
    /\ seen_urls' = {}
    /\ seen_dropped_urls' = {}
    /\ UNCHANGED <<items, dropped_items>>
    /\ UNCHANGED runvars
    /\ UNCHANGED <<urlvars, purevars>>

\* the next kept item is upserted inside the transaction
UpsertKept ==
    /\ pc = "saving"
    /\ pos <= Len(Work(digest.sections))
    /\ Work(digest.sections)[pos].kind = "kept"
    /\ LET w == Work(digest.sections)[pos]
       IN  conn' = [conn EXCEPT !.items = upsert_item(@, w.name, w.item, digest.date_utc)]
    /\ pos' = pos + 1
    /\ UNCHANGED <<items, dropped_items, pc, digest, seen_urls, seen_dropped_urls, runs,
                   retrieved, before>>
    /\ UNCHANGED runvars
    /\ UNCHANGED <<urlvars, purevars>>

\* the next dropped item is upserted inside the transaction
UpsertDropped ==
    /\ pc = "saving"
    /\ pos <= Len(Work(digest.sections))
    /\ Work(digest.sections)[pos].kind = "dropped"
    /\ LET w == Work(digest.sections)[pos]
       IN  conn' = [conn EXCEPT !.dropped_items =
                       upsert_dropped_item(@, w.name, w.item, digest.date_utc)]
    /\ pos' = pos + 1
    /\ UNCHANGED <<items, dropped_items, pc, digest, seen_urls, seen_dropped_urls, runs,
                   retrieved, before>>
    /\ UNCHANGED runvars
    /\ UNCHANGED <<urlvars, purevars>>

\* the loops are over: conn.commit()
Commit ==
    /\ pc = "saving"
    /\ pos = Len(Work(digest.sections)) + 1
    /\ items' = conn.items
    /\ dropped_items' = conn.dropped_items
    /\ conn' = NoRows
    /\ pc' = "done"
    /\ UNCHANGED <<digest, seen_urls, seen_dropped_urls, pos, runs, retrieved, before>>
    /\ UNCHANGED runvars
    /\ UNCHANGED <<urlvars, purevars>>

\* a statement or the commit raises: conn.rollback(), and the error leaves
\* save_items
SaveFails ==
    /\ pc = "saving"
    /\ items' = rollback([items |-> items, dropped_items |-> dropped_items], conn).items
    /\ dropped_items' =
           rollback([items |-> items, dropped_items |-> dropped_items], conn).dropped_items
    /\ conn' = NoRows
    /\ pc' = "failed"
    /\ UNCHANGED <<digest, seen_urls, seen_dropped_urls, pos, runs, retrieved, before>>
    /\ error' = "save"
    /\ UNCHANGED <<responses, atstart>>
    /\ UNCHANGED <<urlvars, purevars>>

\* ------------------------------------------------------------------------
\* BlankSpec: save_items and a later filter_new on items without a url
\* ------------------------------------------------------------------------

\* urls of the items: the empty string (what _normalize_item gives an item
\* without url), a blank, and a real one
BlankUrls == {<<>>, <<" ">>, <<"a">>}

BlankItems == {[url |-> u, title |-> t] : u \in BlankUrls, t \in {"t1", "t2"}}

RECURSIVE save_kept(_, _, _, _)
\* the kept-items loop of save_items over one section
save_kept(table, section_name, list, date_str) ==
    IF list = <<>> THEN table
    ELSE save_kept(upsert_item(table, section_name, Head(list), date_str),
                   section_name, Tail(list), date_str)

BlankInit ==
    /\ StoreIdle
    /\ UrlIdle
    /\ DigestIdle
    /\ TopicIdle
    /\ JsonIdle
    /\ NormIdle
    /\ GateIdle
    /\ TrendIdle
    /\ bpc = "start"
    /\ bbatch \in SeqsUpTo(BlankItems, MaxBatch)
    /\ blater \in SeqsUpTo(BlankItems, MaxBatch)
    /\ btable = {}
    /\ bnew = <<>>

\* save_items(digest) on a digest whose section holds the batch
SaveBatch ==
    /\ bpc = "start"
    /\ btable' = save_kept({}, SectionName(1), bbatch, 1)
    /\ bpc' = "saved"
    /\ UNCHANGED <<bbatch, blater, bnew>>
    /\ UNCHANGED <<urlvars, storevars, jsonvars, normvars, gatevars, trendvars, topicvars, digestvars>>

\* a later run: load_seen_urls() and filter_new on the later items
FilterLater ==
    /\ bpc = "saved"
    /\ bnew' = keep_unseen(blater, load_seen(btable))
    /\ bpc' = "filtered"
    /\ UNCHANGED <<bbatch, btable, blater>>
    /\ UNCHANGED <<urlvars, storevars, jsonvars, normvars, gatevars, trendvars, topicvars, digestvars>>

BlankNext == SaveBatch \/ FilterLater

BlankSpec == BlankInit /\ [][BlankNext]_vars

\* ------------------------------------------------------------------------
\* DigestSpec: the agent calls of run_digest, one start and one return each
\* ------------------------------------------------------------------------

\* the calls in program order: the searches of all sections, then their
\* quality gates, then the theme synthesis
CallKind(k) ==
    IF k <= NumSections THEN "search"
    ELSE IF k <= 2 * NumSections THEN "gate"
    ELSE "synthesis"

\* the section a call works on, 0 for the synthesis
CallSection(k) ==
    IF k <= NumSections THEN k
    ELSE IF k <= 2 * NumSections THEN k - NumSections
    ELSE 0

RECURSIVE pick(_, _, _)
\* the elements of list from position i on whose position is in mask
pick(list, mask, i) ==
    IF i > Len(list) THEN <<>>
    ELSE (IF i \in mask THEN <<list[i]>> ELSE <<>>) \o pick(list, mask, i + 1)

DigestInit ==
    /\ StoreIdle
    /\ UrlIdle
    /\ BlankIdle
    /\ TopicIdle
    /\ JsonIdle
    /\ NormIdle
    /\ GateIdle
    /\ TrendIdle
    /\ dpc = "running"
    /\ dcall = 1
    /\ dflight = 0
    /\ draw = <<>>
    /\ dgated = <<>>

\* Runner.run_sync(agent, prompt) is entered: the run blocks in it
StartCall ==
    /\ dpc = "running"
    /\ dflight = 0
    /\ dcall <= AgentCalls
    /\ dflight' = dflight + 1
    /\ UNCHANGED <<dpc, dcall, draw, dgated>>
    /\ UNCHANGED <<urlvars, storevars, jsonvars, normvars, gatevars, trendvars, blankvars, topicvars>>

\* _run_section returns the section with the items found
ReturnSearch ==
    /\ dpc = "running"
    /\ dflight = 1
    /\ CallKind(dcall) = "search"
    /\ \E found \in SeqsUpTo(DigestItems, MaxBatch) :
           draw' = Append(draw, [name |-> SectionName(CallSection(dcall)),
                                 items |-> found])
    /\ dflight' = dflight - 1
    /\ dcall' = dcall + 1
    /\ UNCHANGED <<dpc, dgated>>
    /\ UNCHANGED <<urlvars, storevars, jsonvars, normvars, gatevars, trendvars, blankvars, topicvars>>

\* _quality_gate_section returns the section split into kept and dropped
\* (GateSpec has the verdicts)
ReturnGate ==
    /\ dpc = "running"
    /\ dflight = 1
    /\ CallKind(dcall) = "gate"
    /\ LET s == draw[CallSection(dcall)]
       IN  \E mask \in SUBSET (1..Len(s.items)) :
               dgated' = Append(dgated,
                                [name |-> s.name,
                                 items |-> pick(s.items, mask, 1),
                                 dropped_items |-> pick(s.items, (1..Len(s.items)) \ mask, 1)])
    /\ dflight' = dflight - 1
    /\ dcall' = dcall + 1
    /\ UNCHANGED <<dpc, draw>>
    /\ UNCHANGED <<urlvars, storevars, jsonvars, normvars, gatevars, trendvars, blankvars, topicvars>>

\* the synthesis call returns; run_digest goes on to build the result
ReturnSynthesis ==
    /\ dpc = "running"
    /\ dflight = 1
    /\ CallKind(dcall) = "synthesis"
    /\ dflight' = dflight - 1
    /\ dcall' = dcall + 1
    /\ dpc' = "done"
    /\ UNCHANGED <<draw, dgated>>
    /\ UNCHANGED <<urlvars, storevars, jsonvars, normvars, gatevars, trendvars, blankvars, topicvars>>

\* the call raises, or its text cannot be salvaged: run_digest ends with
\* the exception
CallFails ==
    /\ dpc = "running"
    /\ dflight = 1
    /\ dflight' = dflight - 1
    /\ dpc' = "failed"
    /\ UNCHANGED <<dcall, draw, dgated>>
    /\ UNCHANGED <<urlvars, storevars, jsonvars, normvars, gatevars, trendvars, blankvars, topicvars>>

DigestNext ==
    \/ StartCall
    \/ ReturnSearch
    \/ ReturnGate
    \/ ReturnSynthesis
    \/ CallFails

DigestSpec == DigestInit /\ [][DigestNext]_vars

\* the digest is rendered (dry run, preview) or send_digest_email(digest)
\* returns
Deliver ==
    /\ pc = "done"
    /\ pc' = "sent"
    /\ UNCHANGED <<items, dropped_items, conn, digest, seen_urls, seen_dropped_urls, pos,
                   runs, retrieved, before>>
    /\ UNCHANGED runvars
    /\ UNCHANGED <<urlvars, purevars>>

\* send_digest_email(digest) raises (a required environment variable is not
\* set, or the send fails): main re-raises
DeliverFails ==
    /\ pc = "done"
    /\ pc' = "failed"
    /\ error' = "deliver"
    /\ UNCHANGED <<items, dropped_items, conn, digest, seen_urls, seen_dropped_urls, pos,
                   runs, retrieved, before>>
    /\ UNCHANGED <<responses, atstart>>
    /\ UNCHANGED <<urlvars, purevars>>

Init ==
    /\ StoreIdle
    /\ UrlIdle
    /\ PureIdle

Next ==
    \/ RunDigest
    \/ LoadSeen
    \/ FilterNew
    \/ BeginSave
    \/ UpsertKept
    \/ UpsertDropped
    \/ Commit
    \/ SaveFails
    \/ Deliver
    \/ DeliverFails

\* the workflow of main, run after run
Spec == Init /\ [][Next]_vars

StoreNext ==
    \/ DirectSave
    \/ UpsertKept
    \/ UpsertDropped
    \/ Commit
    \/ SaveFails

\* save_items called on arbitrary DigestResults, call after call
StoreSpec == Init /\ [][StoreNext]_vars

\* ------------------------------------------------------------------------
\* Reference rules for normalize_url, stated over positions of the string
\* ------------------------------------------------------------------------

\* the string without its leading and trailing whitespace
Trimmed(u) ==
    LET NonSpace == {k \in 1..Len(u) : ~IsSpace(u[k])}
    IN  IF NonSpace = {} THEN <<>>
        ELSE LET i == CHOOSE k \in NonSpace : \A m \in NonSpace : k <= m
                 j == CHOOSE k \in NonSpace : \A m \in NonSpace : k >= m
             IN  [k \in 1..(j - i + 1) |-> u[i + k - 1]]

\* t without its last character
DropLast(t) == [k \in 1..(Len(t) - 1) |-> t[k]]

\* t without its whole run of trailing slashes
DropSlashRun(t) ==
    LET n == CHOOSE n \in 0..Len(t) :
                 /\ \A k \in (n + 1)..Len(t) : t[k] = "/"
                 /\ (n = 0 \/ t[n] # "/")
    IN  [k \in 1..n |-> t[k]]

EndsInSlash(t) == Len(t) > 0 /\ t[Len(t)] = "/"

\* position of the first "?" of t, 0 when there is none
QueryPos(t) ==
    IF \E k \in 1..Len(t) : t[k] = "?"
    THEN CHOOSE k \in 1..Len(t) : t[k] = "?" /\ \A m \in 1..(k - 1) : t[m] # "?"
    ELSE 0

PathPart(t) == [k \in 1..(QueryPos(t) - 1) |-> t[k]]

\* "?" and everything after it
QueryPart(t) == [k \in 1..(Len(t) - QueryPos(t) + 1) |-> t[QueryPos(t) + k - 1]]

\* the rule as the specification words it: exactly one slash is removed, and
\* the path part before "?" loses one trailing slash whatever its length
SpecRule(u) ==
    LET t == Trimmed(u) IN
    IF QueryPos(t) = 0 /\ ~Has(t, "#") /\ Len(t) > 1 /\ EndsInSlash(t)
    THEN DropLast(t)
    ELSE IF QueryPos(t) > 0 /\ EndsInSlash(PathPart(t))
    THEN DropLast(PathPart(t)) \o QueryPart(t)
    ELSE t

\* the rule the code follows: the whole run of trailing slashes is removed,
\* and the path part before "?" is touched only when longer than one character
RunRule(u) ==
    LET t == Trimmed(u) IN
    IF QueryPos(t) = 0 /\ ~Has(t, "#") /\ Len(t) > 1 /\ EndsInSlash(t)
    THEN DropSlashRun(t)
    ELSE IF QueryPos(t) > 0 /\ Len(PathPart(t)) > 1 /\ EndsInSlash(PathPart(t))
    THEN DropSlashRun(PathPart(t)) \o QueryPart(t)
    ELSE t

\* ------------------------------------------------------------------------
\* Claims about normalize_url (UrlSpec)
\* ------------------------------------------------------------------------

\* C1: normalize_url is idempotent: normalizing the result of normalize_url
\* again returns the same string, for every URL string.
C1_Idempotent == upc = "twice" => twice = once

RECURSIVE OfKind(_, _)
OfKind(work, kind) ==
    IF work = <<>> THEN <<>>
    ELSE IF Head(work).kind = kind
         THEN <<Head(work)>> \o OfKind(Tail(work), kind)
         ELSE OfKind(Tail(work), kind)

\* the entries of kind whose url normalizes to canon
Occurrences(d, kind, canon) ==
    LET w == OfKind(Work(d.sections), kind)
    IN  {k \in 1..Len(w) : normalize_url(w[k].item.url) = canon}

\* the row of table stored under stored_url
RowOf(table, stored_url) == CHOOSE row \in table : row.url = stored_url

StoredUrls(table) == {row.url : row \in table}

\* C3: after filter_new, in every section no surviving kept item has a
\* normalized url in seen_urls and no surviving dropped item has a
\* normalized url in seen_dropped_urls.
C3_NoSeenSurvives ==
    pc = "filtered" =>
        \A i \in 1..Len(digest.sections) :
            /\ \A k \in 1..Len(digest.sections[i].items) :
                   normalize_url(digest.sections[i].items[k].url) \notin seen_urls
            /\ \A k \in 1..Len(digest.sections[i].dropped_items) :
                   normalize_url(digest.sections[i].dropped_items[k].url)
                       \notin seen_dropped_urls

\* filter_new has removed a kept item and a dropped item of the same digest
C3_Witness ==
    /\ pc = "filtered"
    /\ \E i \in 1..Len(digest.sections) :
           Len(digest.sections[i].items) < Len(retrieved.sections[i].items)
    /\ \E i \in 1..Len(digest.sections) :
           Len(digest.sections[i].dropped_items) < Len(retrieved.sections[i].dropped_items)

\* u and v are the same string or differ by one trailing slash
SameUpToSlash(u, v) == u = v \/ u = v \o <<"/">> \/ v = u \o <<"/">>

\* C4: an already-persisted item is never presented as new: once a kept item
\* with url u has been persisted by an earlier run (the table items holds the
\* row stored for u), no kept item whose url is u, or u with or without one
\* trailing slash, survives load_seen_urls and filter_new in a later run.
C4_NeverNewAgain ==
    pc = "filtered" =>
        \A i \in 1..Len(digest.sections) :
            \A k \in 1..Len(digest.sections[i].items) :
                \A u \in UrlPool :
                    ~ /\ normalize_url(u) \in StoredUrls(items)
                      /\ SameUpToSlash(u, digest.sections[i].items[k].url)

\* the row that table `after` holds for a row of `prior` re-encountered once
\* by digest d has count 2, the date of d as last_seen_date, the first run's
\* first_seen_date and the descriptive fields of the item of d
Accumulated(prior, after, d, kind) ==
    \A r1 \in prior :
        (r1.seen_count = 1 /\ Cardinality(Occurrences(d, kind, r1.url)) = 1) =>
            LET w  == OfKind(Work(d.sections), kind)
                k  == CHOOSE k \in Occurrences(d, kind, r1.url) : TRUE
            IN  \E r2 \in after :
                    /\ r2.url = r1.url
                    /\ r2.seen_count = 2
                    /\ r2.last_seen_date = d.date_utc
                    /\ r2.first_seen_date = r1.first_seen_date
                    /\ r2.title = w[k].item.title
                    /\ r2.section_name = w[k].name

CountedOnce(prior, after, d, kind) ==
    \A r \in prior :
        /\ r.url \in StoredUrls(after)
        /\ RowOf(after, r.url).seen_count =
               IF Occurrences(d, kind, r.url) # {} THEN r.seen_count + 1
               ELSE r.seen_count

\* C6: in the workflow (run_digest, load_seen_urls, filter_new, save_items)
\* every run that retrieves an item whose canonical url is already stored
\* raises that row's seen_count by exactly 1, however often the url occurs
\* in the batch, and a run that does not retrieve it leaves the count alone.
C6_CountsEveryRun ==
    pc = "done" =>
        /\ CountedOnce(before.items, items, retrieved, "kept")
        /\ CountedOnce(before.dropped_items, dropped_items, retrieved, "dropped")

\* C7: in every reachable store state every row of both tables has
\* last_seen_date >= first_seen_date.
C7_LastNotBeforeFirst ==
    \A row \in items \cup dropped_items : row.last_seen_date >= row.first_seen_date

\* C8: each table holds at most one row per canonical identity: no two rows
\* of a table have urls that normalize_url maps to the same string.
C8_OneRowPerIdentity ==
    /\ \A r1, r2 \in items :
           normalize_url(r1.url) = normalize_url(r2.url) => r1 = r2
    /\ \A r1, r2 \in dropped_items :
           normalize_url(r1.url) = normalize_url(r2.url) => r1 = r2

\* every row of `prior` is still in `after`, with a count at least as large
\* and the same first_seen_date
Retains(prior, after) ==
    \A r \in prior : \E r2 \in after :
        /\ r2.url = r.url
        /\ r2.seen_count >= r.seen_count
        /\ r2.first_seen_date = r.first_seen_date

\* C9: the store never loses history: in every step the stored urls of each
\* table only grow, no row's seen_count decreases and no row's
\* first_seen_date changes.
C9_NeverLoses ==
    [][Retains(items, items') /\ Retains(dropped_items, dropped_items')]_vars

\* a row has been merged on conflict while the other table holds rows too
C9_Witness ==
    /\ pc = "done"
    /\ \E row \in items : row.seen_count >= 2
    /\ dropped_items # {}

\* the tables after every upsert of the list of upserts has been applied
RECURSIVE SaveAll(_, _, _)
SaveAll(tables, work, date_str) ==
    IF work = <<>> THEN tables
    ELSE LET w == Head(work)
             t == IF w.kind = "kept"
                  THEN [tables EXCEPT !.items = upsert_item(@, w.name, w.item, date_str)]
                  ELSE [tables EXCEPT !.dropped_items =
                                          upsert_dropped_item(@, w.name, w.item, date_str)]
         IN  SaveAll(t, Tail(work), date_str)

Committed == [items |-> items, dropped_items |-> dropped_items]

\* C10: save_items is atomic over the batch: when an upsert (or the commit)
\* fails, both tables hold exactly the rows they held before the call; until
\* the commit nothing of the batch is in the tables; after the commit every
\* upsert of the batch is.
C10_Atomic ==
    /\ pc = "failed" => Committed = before
    /\ pc = "saving" => Committed = before
    /\ pc = "done" => Committed = SaveAll(before, Work(digest.sections), digest.date_utc)

\* save_items has failed after its first upsert had changed a non-empty store
C10_Witness ==
    /\ pc = "failed"
    /\ pos >= 2
    /\ before.items # {}
    /\ SaveAll(before, Work(digest.sections), digest.date_utc) # before

\* ------------------------------------------------------------------------
\* _extract_json
\* ------------------------------------------------------------------------

\* the decoded value is a JSON object: its compact text opens with a brace
IsObject(v) == Len(v) > 0 /\ v[1] = "{"

\* C13: for every text, _extract_json returns a JSON object or raises the
\* ValueError; it never returns an array, number, string, boolean or null.
C13_ObjectOrFailure == (jpc = "done" /\ jres.ok) => IsObject(jres.val)

\* C14: for prose + fence (optionally tagged json) + object J + fence +
\* prose, _extract_json returns exactly J, whatever J holds and whatever the
\* leading prose starts with.
C14_FencedRecovered == (jpc = "done" /\ jkind = "fenced") => jres = Parsed(jobj)

\* C15: for a valid JSON object followed by trailing non-JSON characters,
\* _extract_json returns the leading object unchanged.
C15_LeadingObject == (jpc = "done" /\ jkind = "trailing") => jres = Parsed(jobj)

\* {"k":"}"} followed by } is given back as {"k":"}"}
C15_Witness ==
    /\ jpc = "done"
    /\ jkind = "trailing"
    /\ jobj = Member(<<"\"", "}", "\"">>)
    /\ jtext = jobj \o <<"}">>
    /\ jres = Parsed(jobj)

\* ------------------------------------------------------------------------
\* The run of main as a whole
\* ------------------------------------------------------------------------

\* every entry of the digest in hand has its row in the table of its kind
Persisted ==
    \A k \in 1..Len(Work(digest.sections)) :
        LET w == Work(digest.sections)[k]
        IN  normalize_url(w.item.url) \in
                StoredUrls(IF w.kind = "kept" THEN items ELSE dropped_items)

\* C11: a run of main is all-or-nothing: when it ends with a propagated
\* error, raised at whatever step, the store is what it was before the run;
\* when it ends without error, every item of the filtered digest is stored.
C11_AllOrNothing ==
    /\ pc = "failed" => Committed = atstart
    /\ pc = "sent" => Persisted

\* some response read in this run is one that every salvage strategy fails on
SalvageFailed == \E i \in 1..Len(responses) : ~extract_json(responses[i]).ok

\* C12: when every salvage strategy fails on the agent response of a section
\* search, a quality gate or the theme synthesis, the ValueError leaves
\* run_digest, no DigestResult is produced and nothing is written to the
\* store in that run.
C12_SalvageFailureAborts ==
    SalvageFailed =>
        /\ pc = "failed"
        /\ error = "ValueError"
        /\ digest = NoDigest
        /\ conn = NoRows
        /\ Committed = atstart

\* the response of the first quality gate of the second run was beyond
\* salvage, and the rows of the first run are all the store holds
C12_Witness ==
    /\ SalvageFailed
    /\ Len(responses) = NumSections + 1
    /\ runs = 2
    /\ items # {}
    /\ Committed = atstart
    /\ error = "ValueError"

\* ------------------------------------------------------------------------
\* _normalize_item and _quality_gate_section
\* ------------------------------------------------------------------------

\* C16: the record _normalize_item returns has every required field present
\* with a non-null value (the empty string when the input gave none) and no
\* key outside the Item fields.
C16_RequiredNonNull ==
    npc = "done" =>
        /\ \A f \in required_fields : f \in DOMAIN nres /\ ~nres[f].null
        /\ DOMAIN nres \subseteq allowed_fields

\* the quality of the item holds the verdict KEEP, in any case, trimmed
KeepVerdict(it) ==
    /\ it.quality.kind = "map"
    /\ it.quality.verdict.kind = "str"
    /\ upper(strip(it.quality.verdict.text)) = <<"K", "E", "E", "P">>

RECURSIVE Select(_, _)
\* the entries of list whose KeepVerdict is b, in order
Select(list, b) ==
    IF list = <<>> THEN <<>>
    ELSE IF KeepVerdict(Head(list)) = b
         THEN <<Head(list)>> \o Select(Tail(list), b)
         ELSE Select(Tail(list), b)

\* C17: the gate keeps an item only when its verdict is the string KEEP
\* (case-insensitive, trimmed); for every other shape of the quality data
\* the item goes to dropped_items, and no error is raised.
C17_KeptOnlyKeep ==
    /\ gpc # "raised"
    /\ gpc = "gated" => gkept = Select(gated, TRUE) /\ gdropped = Select(gated, FALSE)

CanonUrls(list) == {normalize_url(list[i].url) : i \in 1..Len(list)}

\* C18: in the section run_digest builds, no item (by canonical url) is in
\* both the kept list and the dropped list.
C18_KeptDroppedDisjoint ==
    gpc = "built" => CanonUrls(gsection.items) \cap CanonUrls(gsection.dropped_items) = {}

\* ------------------------------------------------------------------------
\* Trends
\* ------------------------------------------------------------------------

\* days of the gap threshold
GapDays == 4 * DaysPerWeek

FirstNonZero == CHOOSE i \in non_zero(tseries) : \A j \in non_zero(tseries) : i <= j

LastNonZero == CHOOSE i \in non_zero(tseries) : \A j \in non_zero(tseries) : j <= i

\* C19: for a topic with a nonzero data point, start_date is the date of its
\* first nonzero period; end_date is null when the date of its last nonzero
\* period is at most 4 weeks before the date of the final period of the
\* series, and the date of its last nonzero period otherwise.
C19_Lifecycle ==
    (tpc = "done" /\ non_zero(tseries) # {}) =>
        /\ Len(ttopics) = 1
        /\ ttopics[1].start_date = tseries[FirstNonZero].date
        /\ ttopics[1].end_date =
               IF tseries[Len(tseries)].date - tseries[LastNonZero].date <= GapDays
               THEN NoEnd
               ELSE tseries[LastNonZero].date

\* a topic first mentioned in one week, last mentioned in a later week, and
\* ended: the final period is more than 4 weeks after the last mention
C19_Witness ==
    /\ tpc = "done"
    /\ Len(ttopics) = 1
    /\ ttopics[1].end_date # NoEnd
    /\ ttopics[1].start_date < ttopics[1].end_date
    /\ ttopics[1].end_date = tseries[LastNonZero].date

\* the dates of the rows that mention the topic
MentionDates == {row.first_seen_date : row \in {r \in thistory : r.mentions}}

\* C20: every topic analyze_trends reports as active (end_date null) has its
\* most recent mention within 4 weeks of the analysis date, whatever the
\* history, histories whose newest item is older than 4 weeks included.
C20_ActiveIsRecent ==
    tpc = "done" =>
        \A k \in 1..Len(ttopics) :
            ttopics[k].end_date = NoEnd =>
                \E d \in MentionDates : Today - d <= GapDays

\* the periods from the first to the last period of the series
SeriesRange == tseries[1].period .. tseries[Len(tseries)].period

\* C21: a period inside the analysed range in which no stored item falls
\* still has a data point in the topic's series, with count 0 and the first
\* day of the week as its date.
C21_Continuity ==
    (tpc = "done" /\ tseries # <<>>) =>
        \A p \in SeriesRange :
            \E i \in 1..Len(tseries) :
                /\ tseries[i].period = p
                /\ rows_of(thistory, p) = {} =>
                       tseries[i].count = 0 /\ tseries[i].date = p * DaysPerWeek

\* ------------------------------------------------------------------------
\* filter_new as a whole
\* ------------------------------------------------------------------------

RECURSIVE IsSubsequence(_, _)
\* sub is list with some entries left out, the others in their order
IsSubsequence(sub, list) ==
    IF sub = <<>> THEN TRUE
    ELSE IF list = <<>> THEN FALSE
    ELSE IF Head(sub) = Head(list) THEN IsSubsequence(Tail(sub), Tail(list))
    ELSE IsSubsequence(sub, Tail(list))

\* C25: filter_new leaves the store as it is and keeps the structure: the
\* same sections in the same order with the same names and queries, and in
\* each section the surviving kept and dropped items are a subsequence of
\* the lists run_digest returned.
C25_FilterKeepsStructure ==
    pc = "filtered" =>
        /\ Committed = atstart
        /\ conn = NoRows
        /\ Len(digest.sections) = Len(retrieved.sections)
        /\ digest.date_utc = retrieved.date_utc
        /\ \A i \in 1..Len(digest.sections) :
               /\ digest.sections[i].name = retrieved.sections[i].name
               /\ digest.sections[i].query = retrieved.sections[i].query
               /\ IsSubsequence(digest.sections[i].items, retrieved.sections[i].items)
               /\ IsSubsequence(digest.sections[i].dropped_items,
                                retrieved.sections[i].dropped_items)

\* in a second run the first section came back with two kept items, one of
\* them already stored: filter_new removed that one and left the other
C25_Witness ==
    /\ pc = "filtered"
    /\ runs = 2
    /\ Len(retrieved.sections[1].items) = 2
    /\ Len(digest.sections[1].items) = 1
    /\ items # {}

\* ------------------------------------------------------------------------
\* The section run_digest builds from a gated section
\* ------------------------------------------------------------------------

\* how often the entry it occurs in list
CountIn(list, it) == Cardinality({i \in 1..Len(list) : list[i] = it})

\* C26: no retrieved item is lost by the quality gate: every item of the
\* section (here: every item the gate response holds, the gate agent having
\* copied the search result) is, in the section run_digest builds, in
\* exactly one of the kept list and the dropped list.
C26_NoItemLost ==
    gpc = "built" =>
        \A i \in 1..Len(gated) :
            CountIn(gsection.items, gated[i]) + CountIn(gsection.dropped_items, gated[i])
                = CountIn(gated, gated[i])

\* the date is in the window the search prompt states: today - (days_back - 1)
\* to today
InStatedWindow(age, days_back) == age # NoDate /\ age >= 0 /\ age <= days_back - 1

RECURSIVE InWindow(_)
\* the entries of list without a date or with a date in the stated window
InWindow(list) ==
    IF list = <<>> THEN <<>>
    ELSE IF Head(list).age = NoDate \/ InStatedWindow(Head(list).age, DaysBack)
         THEN <<Head(list)>> \o InWindow(Tail(list))
         ELSE InWindow(Tail(list))

\* C27: for days_back >= 1 run_digest retains a gate-kept item exactly when
\* its published_date is missing or unparseable or lies in the window
\* today - (days_back - 1) .. today that the search prompt states.
C27_DateWindow ==
    gpc = "built" => gsection.items = InWindow(gkept)

\* ------------------------------------------------------------------------
\* The two tables together
\* ------------------------------------------------------------------------

\* C29: after any sequence of runs no canonical url is stored both in the
\* kept table (items) and in the dropped table (dropped_items).
C29_OneTablePerUrl == StoredUrls(items) \cap StoredUrls(dropped_items) = {}

\* ------------------------------------------------------------------------
\* Items without a url
\* ------------------------------------------------------------------------

\* the url is missing or empty
NoUrl(it) == it.url = <<>>

\* C30: items without a url are not conflated: two distinct items of a
\* batch without url are not merged into one stored record by save_items,
\* and a stored record with an empty url does not make filter_new remove a
\* later item without url as already seen.
C30_NoUrlNotConflated ==
    /\ bpc \in {"saved", "filtered"} =>
           Cardinality({row \in btable : row.url = <<>>})
               >= Cardinality({bbatch[i] : i \in {k \in 1..Len(bbatch) : NoUrl(bbatch[k])}})
    /\ bpc = "filtered" =>
           \A i \in 1..Len(blater) :
               NoUrl(blater[i]) => \E k \in 1..Len(bnew) : bnew[k] = blater[i]

\* ------------------------------------------------------------------------
\* Topics of the trend analysis
\* ------------------------------------------------------------------------

\* the names of the returned topics
TopNames == {ktop[i].name : i \in 1..Len(ktop)}

\* the topics of the time series that are not returned
LeftOut == {i \in 1..Len(kseries) : kseries[i].topic \notin TopNames}

\* C22: analyze_trends returns at most top_n topics, ordered by
\* non-increasing total_mentions; every returned topic has total_mentions
\* >= 1, no topic left out has a strictly larger total than a returned one,
\* and the returned time_series has exactly the returned topics as keys.
C22_TopNRanked ==
    kpc = "done" =>
        /\ Len(ktop) <= ktop_n
        /\ \A i, j \in 1..Len(ktop) :
               i < j => ktop[i].total_mentions >= ktop[j].total_mentions
        /\ \A i \in 1..Len(ktop) :
               /\ ktop[i].total_mentions >= 1
               /\ ktop[i].total_mentions = sum_counts(series_get(kseries, ktop[i].name))
               /\ \A k \in LeftOut :
                      sum_counts(kseries[k].points) <= ktop[i].total_mentions
        /\ Len(kfiltered) = Len(ktop)
        /\ \A i \in 1..Len(ktop) : kfiltered[i].topic = ktop[i].name
        /\ \A i, j \in 1..Len(ktop) : i # j => ktop[i].name # ktop[j].name

\* the ranking cut a topic that has mentions, and fewer than the returned one
C22_Witness ==
    /\ kpc = "done"
    /\ ktop_n = 1
    /\ Len(ktop) = 1
    /\ \E k \in LeftOut :
           /\ sum_counts(kseries[k].points) >= 1
           /\ sum_counts(kseries[k].points) < ktop[1].total_mentions

\* C24: a failure of the agent call of the trend topic extraction is
\* propagated to the caller as it is; the call is not replaced by another
\* result (here: no list of topics is produced in its place).
C24_AgentFailurePropagated ==
    kagent = "raised" => kerror = "agent" /\ kpc = "failed"

\* C28: each topic's time series built by _build_time_series has exactly one
\* data point per period, in chronological period order, for every list of
\* topic labels the extraction step can return, a list that holds the same
\* label more than once included.
C28_OnePointPerPeriod ==
    kpc = "done" =>
        \A k \in 1..Len(kseries) :
            /\ Len(kseries[k].points) = Len(kperiod_items)
            /\ \A p \in 1..Len(kperiod_items) : kseries[k].points[p].period = p

\* ------------------------------------------------------------------------
\* Order of the agent calls of run_digest
\* ------------------------------------------------------------------------

\* the search of section e has returned
SearchDone(e) == Len(draw) >= e

\* the quality gate of section e has returned
GateDone(e) == Len(dgated) >= e

\* C23: sections are resolved one after another: when a step (search or
\* quality gate) of a later section is under way, every earlier section has
\* completed both its search and its quality gate; at no time is more than
\* one agent call outstanding.
C23_SectionsInTurn ==
    /\ dflight <= 1
    /\ (dflight = 1 /\ CallKind(dcall) \in {"search", "gate"}) =>
           \A e \in 1..(CallSection(dcall) - 1) : SearchDone(e) /\ GateDone(e)


====
